---- MODULE Spec2Model ----
(***************************************************************************)
(* marker-mind: the undo/redo hook (client/src/hooks/useHistory.ts), the   *)
(* board page's local store with its save mutation (client/src/pages/      *)
(* Board.tsx), the REST client (client/src/lib/api.ts) and the server's    *)
(* full-replace save (server/routes.ts, server/storage.ts).                *)
(*                                                                         *)
(* React state is modelled at the granularity of one user event per step:  *)
(* React commits a render between two discrete events, so a handler's      *)
(* closure holds the state of the step before it.                          *)
(***************************************************************************)
EXTENDS Integers, Sequences, FiniteSets, TLC

VARIABLES
    maxSize,            \* useHistory(maxSize): capacity, fixed at construction
    past,               \* useHistory: useState<HistoryAction[]>
    future,             \* useHistory: useState<HistoryAction[]>
    ret,                \* value returned by the last undo()/redo() call
    lastOp,             \* name of the last handler that ran
    pushed,             \* every action handed to push() so far, in order
    consec,             \* number of push() calls since the last other call
    localBoard,         \* Board: useState localBoard (Null before the load)
    hasUnsavedChanges,  \* Board: useState hasUnsavedChanges
    serverBoardData,    \* Board: useQuery(['board', boardId]).data
    refetchPending,     \* the query was invalidated and not yet refetched
    selectedNoteId,     \* Board: useState selectedNoteId (0 = null)
    selectedLabelId,    \* Board: useState selectedLabelId (0 = null)
    selectedLineId,     \* Board: useState selectedLineId (0 = null)
    selectedImageId,    \* Board: useState selectedImageId (0 = null)
    nextId,             \* ids handed out by generateId() so far
    saves,              \* save requests in flight, oldest first
    remote,             \* rows of the board committed in the database
    opsLeft,            \* mutations, undos, redos and saves the run may still issue
    prev,               \* what the properties need of the steps before
    currentTool,        \* Board: useState currentTool
    isSpacePressed,     \* Board: useState isSpacePressed
    isPanning,          \* Board: useState isPanning
    listeners,          \* document: the listener groups of the gestures, oldest first
    dragging,           \* the objects whose motion.div is in a drag session
    dragMode,           \* LineCanvas: useState dragMode
    startPoint,         \* LineCanvas: useState startPoint (Null when not set)
    currentEndPoint,    \* LineCanvas: useState currentEndPoint (Null when not set)
    zoom,               \* Board: useState zoom, in ten-thousandths
    pan,                \* Board: useState pan, in screen pixels
    call,               \* the inputs of the last computation under study
    result              \* what that computation produced

hvars == <<maxSize, past, future, ret, lastOp, pushed, consec>>
bvars == <<localBoard, hasUnsavedChanges, serverBoardData, refetchPending,
           selectedNoteId, selectedLabelId, selectedLineId, selectedImageId,
           nextId, saves, remote, opsLeft, prev>>
\* the state of the canvas: tools, gestures, viewport
gvars == <<listeners, dragging>>
uvars == <<isSpacePressed, isPanning, dragMode, startPoint, currentEndPoint,
           zoom, pan, call,
                   result>>
cvars == <<currentTool, gvars, uvars>>
vars == <<hvars, bvars, cvars>>

(***************************************************************************)
(* Bounds of the model.                                                    *)
(***************************************************************************)
MaxCapacity == 3    \* capacities the stand-alone hook is constructed with
MaxPush == 5        \* push() calls in one run of the stand-alone hook
OverflowPushes == 25 \* push() calls in one run of the hook at its default capacity

(***************************************************************************)
(* Values.                                                                 *)
(***************************************************************************)
Null == [null |-> TRUE]

(***************************************************************************)
(* Array helpers used by the hook.                                         *)
(***************************************************************************)
\* arr.slice(arr.length - n) for 0 < n <= arr.length: the last n elements
sliceLast(arr, n) == SubSeq(arr, Len(arr) - n + 1, Len(arr))

\* arr.slice(0, -1): all but the last element
sliceButLast(arr) == SubSeq(arr, 1, Len(arr) - 1)

(***************************************************************************)
(* useHistory                                                              *)
(***************************************************************************)
\* a push that evicts the newest instead of the oldest entry
pushPastDropNewest(p, action, n) ==
    LET newPast == Append(p, action)
    IN  IF Len(newPast) > n THEN SubSeq(newPast, 1, n) ELSE newPast

\* the setPast updater of push
pushPast(p, action, n) ==
    LET newPast == Append(p, action)
    IN  IF Len(newPast) > n THEN sliceLast(newPast, n) ELSE newPast

\* a push that leaves the redo stack alone
pushFutureKeep(f) == f

\* setFuture([]) of push
pushFuture(f) == <<>>

canUndo == Len(past) > 0
canRedo == Len(future) > 0

\* a push that leaves the redo stack as it is
pushKeepsFuture(action) ==
    /\ past' = pushPast(past, action, maxSize)
    /\ future' = future

\* history.push(action)
push(action) ==
    /\ past' = pushPast(past, action, maxSize)
    /\ future' = pushFuture(future)

\* an undo that drops the entry instead of moving it to future
undoFutureDrop(f, lastAction) == f

\* the setFuture updater of undo
undoFuture(f, lastAction) == Append(f, lastAction)

\* an undo that hands back the after snapshot
undoResultAfter(lastAction) == lastAction.after

\* the value undo returns
undoResult(lastAction) == lastAction.before

\* an undo that empties future when there is nothing to undo
undoUnderflowDrops ==
    IF Len(past) = 0
    THEN /\ ret' = Null
         /\ past' = past
         /\ future' = <<>>
    ELSE LET lastAction == past[Len(past)]
         IN  /\ past' = sliceButLast(past)
             /\ future' = undoFuture(future, lastAction)
             /\ ret' = undoResult(lastAction)

\* history.undo(): the stacks after the call and the value returned
undo ==
    IF Len(past) = 0
    THEN /\ ret' = Null
         /\ UNCHANGED <<past, future>>
    ELSE LET lastAction == past[Len(past)]
         IN  /\ past' = sliceButLast(past)
             /\ future' = undoFuture(future, lastAction)
             /\ ret' = undoResult(lastAction)

\* a redo that takes the oldest undone entry
redoPickFirst(f) == f[1]

\* future[future.length - 1]
redoPick(f) == f[Len(f)]

\* a redo that hands back the before snapshot
redoResultBefore(nextAction) == nextAction.before

\* the value redo returns
redoResult(nextAction) == nextAction.after

\* a redo that re-applies the entry undone first and drops the others
redoNewest ==
    IF Len(future) = 0
    THEN /\ ret' = Null
         /\ UNCHANGED <<past, future>>
    ELSE LET nextAction == future[1]
         IN  /\ future' = <<>>
             /\ past' = Append(past, nextAction)
             /\ ret' = redoResult(nextAction)

\* history.redo()
redo ==
    IF Len(future) = 0
    THEN /\ ret' = Null
         /\ UNCHANGED <<past, future>>
    ELSE LET nextAction == redoPick(future)
         IN  /\ future' = sliceButLast(future)
             /\ past' = Append(past, nextAction)
             /\ ret' = redoResult(nextAction)

\* a clear that leaves the redo stack alone
clearPastOnly ==
    /\ past' = <<>>
    /\ future' = future

\* history.clear()
clear ==
    /\ past' = <<>>
    /\ future' = <<>>

(***************************************************************************)
(* The hook on its own: a component that calls push, undo, redo and clear, *)
(* one call per event, as the hook's tests do.                             *)
(***************************************************************************)
\* the k-th action pushed: opaque before/after snapshots
TestAction(k) == [type |-> "update", before |-> [tag |-> 2 * k], after |-> [tag |-> 2 * k + 1]]

\* the canvas of a page that was just mounted
CanvasInit ==
    /\ currentTool = "cursor"
    /\ isSpacePressed = FALSE
    /\ isPanning = FALSE
    /\ listeners = <<>>
    /\ dragging = {}
    /\ dragMode = "none"
    /\ startPoint = Null
    /\ currentEndPoint = Null
    /\ zoom = 10000
    /\ pan = [x |-> [n |-> 0, d |-> 1], y |-> [n |-> 0, d |-> 1]]

HookInit ==
    /\ maxSize \in 1..MaxCapacity
    /\ past = <<>>
    /\ future = <<>>
    /\ ret = Null
    /\ lastOp = "init"
    /\ pushed = <<>>
    /\ consec = 0
    /\ localBoard = Null
    /\ hasUnsavedChanges = FALSE
    /\ serverBoardData = Null
    /\ refetchPending = FALSE
    /\ selectedNoteId = 0
    /\ selectedLabelId = 0
    /\ selectedLineId = 0
    /\ selectedImageId = 0
    /\ nextId = 0
    /\ saves = <<>>
    /\ remote = Null
    /\ opsLeft = 0
    /\ prev = [past |-> <<>>, future |-> <<>>, lastOp |-> "init", ret |-> Null,
               before |-> [past |-> <<>>, future |-> <<>>]]
    /\ CanvasInit
    /\ call = Null
    /\ result = Null

\* the hook's state before a call, and the stacks one call earlier
HookPrev ==
    [past |-> past, future |-> future, lastOp |-> lastOp, ret |-> ret,
     before |-> [past |-> prev.past, future |-> prev.future]]

hbvars == <<localBoard, hasUnsavedChanges, serverBoardData, refetchPending,
            selectedNoteId, selectedLabelId, selectedLineId, selectedImageId,
            nextId, saves, remote, opsLeft, cvars>>

HookPush ==
    /\ Len(pushed) < MaxPush
    /\ push(TestAction(Len(pushed) + 1))
    /\ pushed' = Append(pushed, TestAction(Len(pushed) + 1))
    /\ consec' = consec + 1
    /\ lastOp' = "push"
    /\ prev' = HookPrev
    /\ UNCHANGED <<maxSize, ret, hbvars>>

HookUndo ==
    /\ undo
    /\ consec' = 0
    /\ lastOp' = "undo"
    /\ prev' = HookPrev
    /\ UNCHANGED <<maxSize, pushed, hbvars>>

HookRedo ==
    /\ redo
    /\ consec' = 0
    /\ lastOp' = "redo"
    /\ prev' = HookPrev
    /\ UNCHANGED <<maxSize, pushed, hbvars>>

HookClear ==
    /\ clear
    /\ consec' = 0
    /\ lastOp' = "clear"
    /\ prev' = HookPrev
    /\ UNCHANGED <<maxSize, ret, pushed, hbvars>>

HookNext == HookPush \/ HookUndo \/ HookRedo \/ HookClear

HookSpec == HookInit /\ [][HookNext]_vars

(***************************************************************************)
(* The hook at its default capacity: a run of push() calls, one per event, *)
(* followed by undo() calls only.                                          *)
(***************************************************************************)
\* useHistory(maxSize = 20)
DefaultMaxSize == 20

OverflowInit ==
    /\ maxSize = DefaultMaxSize
    /\ past = <<>>
    /\ future = <<>>
    /\ ret = Null
    /\ lastOp = "init"
    /\ pushed = <<>>
    /\ consec = 0
    /\ localBoard = Null
    /\ hasUnsavedChanges = FALSE
    /\ serverBoardData = Null
    /\ refetchPending = FALSE
    /\ selectedNoteId = 0
    /\ selectedLabelId = 0
    /\ selectedLineId = 0
    /\ selectedImageId = 0
    /\ nextId = 0
    /\ saves = <<>>
    /\ remote = Null
    /\ opsLeft = 0
    /\ prev = [past |-> <<>>, future |-> <<>>, lastOp |-> "init", ret |-> Null,
               before |-> [past |-> <<>>, future |-> <<>>]]
    /\ CanvasInit
    /\ call = Null
    /\ result = Null

OverflowPush ==
    /\ lastOp \in {"init", "push"}
    /\ Len(pushed) < OverflowPushes
    /\ push(TestAction(Len(pushed) + 1))
    /\ pushed' = Append(pushed, TestAction(Len(pushed) + 1))
    /\ consec' = consec + 1
    /\ lastOp' = "push"
    /\ prev' = HookPrev
    /\ UNCHANGED <<maxSize, ret, hbvars>>

OverflowUndo ==
    /\ undo
    /\ consec' = 0
    /\ lastOp' = "undo"
    /\ prev' = HookPrev
    /\ UNCHANGED <<maxSize, pushed, hbvars>>

OverflowNext == OverflowPush \/ OverflowUndo

OverflowSpec == OverflowInit /\ [][OverflowNext]_vars

(***************************************************************************)
(* The hook when a handler calls it several times before React renders     *)
(* again: every call runs the callback of the same render, which reads     *)
(* past and future from its closure, and the updaters the calls queue run  *)
(* one after the other at the next render.                                 *)
(***************************************************************************)
MaxBatch == 3       \* calls one handler makes before the next render
MaxBatchOps == 3    \* handlers in one run

\* k queued setPast/setFuture(prev => prev.slice(0, -1))
RECURSIVE sliceTimes(_, _)
sliceTimes(arr, k) ==
    IF k = 0 THEN arr ELSE sliceTimes(sliceButLast(arr), k - 1)

\* k queued setFuture/setPast(prev => [...prev, action]) of the same action
RECURSIVE appendTimes(_, _, _)
appendTimes(arr, action, k) ==
    IF k = 0 THEN arr ELSE appendTimes(Append(arr, action), action, k - 1)

\* the queued setPast updaters of push(TestAction(n + 1)), ..., k of them
RECURSIVE pushTimes(_, _, _)
pushTimes(p, n, k) ==
    IF k = 0 THEN p ELSE pushTimes(pushPast(p, TestAction(n + 1), maxSize), n + 1, k - 1)

\* the actions TestAction(n + 1), ..., TestAction(n + k)
nextActions(n, k) == [i \in 1..k |-> TestAction(n + i)]

\* the bookkeeping of a handler that made k calls of op
batched(op, k) ==
    /\ opsLeft > 0
    /\ opsLeft' = opsLeft - 1
    /\ lastOp' = op
    /\ call' = [op |-> op, k |-> k]
    /\ prev' = HookPrev
    /\ consec' = IF op = "push" THEN consec + k ELSE 0
    /\ UNCHANGED <<maxSize, localBoard, hasUnsavedChanges, serverBoardData,
                   refetchPending, selectedNoteId, selectedLabelId, selectedLineId,
                   selectedImageId, nextId, saves, remote, currentTool, gvars,
                   isSpacePressed, isPanning, dragMode, startPoint,
                   currentEndPoint, zoom, pan, result>>

\* k calls of history.push in one handler
BatchPush(k) ==
    /\ Len(pushed) + k <= MaxPush
    /\ past' = pushTimes(past, Len(pushed), k)
    /\ future' = pushFuture(future)
    /\ pushed' = pushed \o nextActions(Len(pushed), k)
    /\ UNCHANGED ret
    /\ batched("push", k)

\* k calls of history.undo in one handler
BatchUndo(k) ==
    /\ IF Len(past) = 0
       THEN /\ ret' = Null
            /\ UNCHANGED <<past, future>>
       ELSE LET lastAction == past[Len(past)]
            IN  /\ past' = sliceTimes(past, k)
                /\ future' = appendTimes(future, lastAction, k)
                /\ ret' = undoResult(lastAction)
    /\ UNCHANGED pushed
    /\ batched("undo", k)

\* k calls of history.redo in one handler
BatchRedo(k) ==
    /\ IF Len(future) = 0
       THEN /\ ret' = Null
            /\ UNCHANGED <<past, future>>
       ELSE LET nextAction == redoPick(future)
            IN  /\ future' = sliceTimes(future, k)
                /\ past' = appendTimes(past, nextAction, k)
                /\ ret' = redoResult(nextAction)
    /\ UNCHANGED pushed
    /\ batched("redo", k)

BatchInit ==
    /\ maxSize \in 1..MaxCapacity
    /\ past = <<>>
    /\ future = <<>>
    /\ ret = Null
    /\ lastOp = "init"
    /\ pushed = <<>>
    /\ consec = 0
    /\ localBoard = Null
    /\ hasUnsavedChanges = FALSE
    /\ serverBoardData = Null
    /\ refetchPending = FALSE
    /\ selectedNoteId = 0
    /\ selectedLabelId = 0
    /\ selectedLineId = 0
    /\ selectedImageId = 0
    /\ nextId = 0
    /\ saves = <<>>
    /\ remote = Null
    /\ opsLeft = MaxBatchOps
    /\ prev = [past |-> <<>>, future |-> <<>>, lastOp |-> "init", ret |-> Null,
               before |-> [past |-> <<>>, future |-> <<>>]]
    /\ CanvasInit
    /\ call = [op |-> "init", k |-> 0]
    /\ result = Null

BatchNext ==
    \/ \E k \in 1..MaxBatch : BatchPush(k)
    \/ \E k \in 1..MaxBatch : BatchUndo(k)
    \/ \E k \in 1..MaxBatch : BatchRedo(k)

BatchSpec == BatchInit /\ [][BatchNext]_vars

(***************************************************************************)
(* Board: the local store of the board page.                               *)
(***************************************************************************)
MaxIds == 3         \* ids in use: 1 is stored already, generateId() adds the rest
MaxVal == 1         \* values an update can give to an object
MaxStoreOps == 4    \* board mutations, undos and redos in a run without saves
MaxBoardOps == 3    \* board mutations, undos, redos and saves in a run with saves

\* useHistory(20) in Board
BoardHistorySize == 20

\* the fallback board of the handlers: every collection empty
EmptyBoard ==
    [stickyNotes |-> <<>>, drawings |-> <<>>, textLabels |-> <<>>,
     lines |-> <<>>, images |-> <<>>]

\* a freshly created object: its identity and the rest of its fields
NewObject(id) == [id |-> id, v |-> 0]

\* crypto.randomUUID(): an id never handed out before
generateId == nextId + 1

\* localBoard || { stickyNotes: [], ... }
orEmpty(b) == IF b = Null THEN EmptyBoard ELSE b

\* arr.map(o => o.id === id ? { ...o, ...updates } : o)
mapUpdate(arr, id, v) ==
    [i \in 1..Len(arr) |-> IF arr[i].id = id THEN [arr[i] EXCEPT !.v = v] ELSE arr[i]]

\* arr.filter(o => o.id !== id)
filterOut(arr, id) == SelectSeq(arr, LAMBDA o : o.id # id)

\* the ids of the objects of one collection
IdsOf(arr) == {arr[i].id : i \in 1..Len(arr)}

\* the scenario create note A, update note A, undo, redo: how far the last
\* operations have followed it, and the board right after the update
ScenarioAfter(op, id, board) ==
    IF op = "createNote" THEN [stage |-> 1, id |-> id, snap |-> Null]
    ELSE IF op = "handleUpdateNote" /\ prev.stage = 1 /\ prev.id = id
        THEN [stage |-> 2, id |-> id, snap |-> board]
    ELSE IF op = "safeUndo" /\ prev.stage = 2 THEN [prev EXCEPT !.stage = 3]
    ELSE IF op = "safeRedo" /\ prev.stage = 3 THEN [prev EXCEPT !.stage = 4]
    ELSE [stage |-> 0, id |-> 0, snap |-> Null]

\* the collection of the board that holds the objects of a kind
CollectionOf == [note |-> "stickyNotes", image |-> "images", line |-> "lines"]

\* the object has a component in the render of the board
rendered(kind, id, board) ==
    board # Null /\ id \in IdsOf(board[CollectionOf[kind]])

\* React unmounts the component of an object that is no longer rendered:
\* its state is gone, the listeners its handlers registered stay (StickyNote
\* and BoardImage have no unmount effect; LineCanvas stays mounted)
unmount(ls, board) ==
    [i \in 1..Len(ls) |->
        IF ls[i].kind = "line" \/ rendered(ls[i].kind, ls[i].id, board)
        THEN ls[i] ELSE [ls[i] EXCEPT !.live = FALSE]]

\* the bookkeeping of a run: the events it may still issue, the last handler
Counted(op, id) ==
    /\ opsLeft > 0
    /\ opsLeft' = opsLeft - 1
    /\ lastOp' = op
    /\ prev' = ScenarioAfter(op, id, localBoard')
    /\ UNCHANGED <<maxSize, pushed, consec>>

\* what the handlers that change the board share when a toolbar button, a
\* key or a click runs them: the bookkeeping and the re-render that follows
Issued(op, id) ==
    /\ Counted(op, id)
    /\ listeners' = unmount(listeners, localBoard')
    /\ dragging' = {c \in dragging : rendered(c.kind, c.id, localBoard')}
    /\ UNCHANGED uvars

\* the part of the page's state the persistence side owns
pvars == <<serverBoardData, refetchPending, saves, remote>>

\* the setLocalBoard updater of the note handlers, with its history.push
NoteMutation(type, afterState) ==
    /\ push([type |-> type, elementType |-> "note",
             before |-> orEmpty(localBoard), after |-> afterState])
    /\ localBoard' = afterState
    /\ hasUnsavedChanges' = TRUE

\* a handler that forgets setHasUnsavedChanges(true)
PlainMutationNotDirty(field, arr) ==
    /\ localBoard' = [localBoard EXCEPT ![field] = arr]
    /\ UNCHANGED <<hasUnsavedChanges, past, future>>

\* the setLocalBoard updater of the drawing, label, line and image handlers
PlainMutation(field, arr) ==
    /\ localBoard' = [localBoard EXCEPT ![field] = arr]
    /\ hasUnsavedChanges' = TRUE
    /\ UNCHANGED <<past, future>>

handleUpdateNote(id, v) ==
    /\ localBoard # Null
    /\ id \in IdsOf(localBoard.stickyNotes)
    /\ LET current == orEmpty(localBoard)
       IN  NoteMutation("update",
               [current EXCEPT !.stickyNotes = mapUpdate(current.stickyNotes, id, v)])
    /\ Issued("handleUpdateNote", id)
    /\ UNCHANGED <<ret, selectedNoteId, selectedLabelId, selectedLineId,
                   selectedImageId, nextId, pvars, currentTool>>

handleDeleteNote(id) ==
    /\ localBoard # Null
    /\ id \in IdsOf(localBoard.stickyNotes)
    /\ LET current == orEmpty(localBoard)
       IN  NoteMutation("delete",
               [current EXCEPT !.stickyNotes = filterOut(current.stickyNotes, id)])
    /\ selectedNoteId' = IF selectedNoteId = id THEN 0 ELSE selectedNoteId
    /\ Issued("handleDeleteNote", id)
    /\ UNCHANGED <<ret, selectedLabelId, selectedLineId, selectedImageId,
                   nextId, pvars, currentTool>>

createNote ==
    /\ localBoard # Null
    /\ nextId < MaxIds
    /\ LET current == orEmpty(localBoard)
           newNote == NewObject(generateId)
       IN  NoteMutation("create",
               [current EXCEPT !.stickyNotes = Append(current.stickyNotes, newNote)])
    /\ nextId' = generateId
    /\ selectedNoteId' = generateId
    /\ Issued("createNote", generateId)
    /\ UNCHANGED <<ret, selectedLabelId, selectedLineId, selectedImageId, pvars>>
    /\ currentTool' = "cursor"

handleAddDrawingLocal ==
    /\ localBoard # Null
    /\ nextId < MaxIds
    /\ PlainMutation("drawings", Append(localBoard.drawings, NewObject(generateId)))
    /\ nextId' = generateId
    /\ Issued("handleAddDrawingLocal", generateId)
    /\ UNCHANGED <<ret, selectedNoteId, selectedLabelId, selectedLineId,
                   selectedImageId, pvars, currentTool>>

handleCreateTextLabel ==
    /\ localBoard # Null
    /\ nextId < MaxIds
    /\ PlainMutation("textLabels", Append(localBoard.textLabels, NewObject(generateId)))
    /\ nextId' = generateId
    /\ selectedLabelId' = generateId
    /\ Issued("handleCreateTextLabel", generateId)
    /\ UNCHANGED <<ret, selectedNoteId, selectedLineId, selectedImageId, pvars>>
    /\ currentTool' = "cursor"

handleUpdateTextLabel(id, v) ==
    /\ localBoard # Null
    /\ id \in IdsOf(localBoard.textLabels)
    /\ PlainMutation("textLabels", mapUpdate(localBoard.textLabels, id, v))
    /\ Issued("handleUpdateTextLabel", id)
    /\ UNCHANGED <<ret, selectedNoteId, selectedLabelId, selectedLineId,
                   selectedImageId, nextId, pvars, currentTool>>

handleDeleteTextLabel(id) ==
    /\ localBoard # Null
    /\ id \in IdsOf(localBoard.textLabels)
    /\ PlainMutation("textLabels", filterOut(localBoard.textLabels, id))
    /\ selectedLabelId' = IF selectedLabelId = id THEN 0 ELSE selectedLabelId
    /\ Issued("handleDeleteTextLabel", id)
    /\ UNCHANGED <<ret, selectedNoteId, selectedLineId, selectedImageId,
                   nextId, pvars, currentTool>>

handleCreateLine ==
    /\ localBoard # Null
    /\ nextId < MaxIds
    /\ PlainMutation("lines", Append(localBoard.lines, NewObject(generateId)))
    /\ nextId' = generateId
    /\ Issued("handleCreateLine", generateId)
    /\ UNCHANGED <<ret, selectedNoteId, selectedLabelId, selectedLineId,
                   selectedImageId, pvars, currentTool>>

handleUpdateLine(id, v) ==
    /\ localBoard # Null
    /\ id \in IdsOf(localBoard.lines)
    /\ PlainMutation("lines", mapUpdate(localBoard.lines, id, v))
    /\ Issued("handleUpdateLine", id)
    /\ UNCHANGED <<ret, selectedNoteId, selectedLabelId, selectedLineId,
                   selectedImageId, nextId, pvars, currentTool>>

handleDeleteLine(id) ==
    /\ localBoard # Null
    /\ id \in IdsOf(localBoard.lines)
    /\ PlainMutation("lines", filterOut(localBoard.lines, id))
    /\ selectedLineId' = IF selectedLineId = id THEN 0 ELSE selectedLineId
    /\ Issued("handleDeleteLine", id)
    /\ UNCHANGED <<ret, selectedNoteId, selectedLabelId, selectedImageId,
                   nextId, pvars, currentTool>>

handleCreateBoardImage ==
    /\ localBoard # Null
    /\ nextId < MaxIds
    /\ PlainMutation("images", Append(localBoard.images, NewObject(generateId)))
    /\ nextId' = generateId
    /\ selectedImageId' = generateId
    /\ Issued("handleCreateBoardImage", generateId)
    /\ UNCHANGED <<ret, selectedNoteId, selectedLabelId, selectedLineId, pvars, currentTool>>

handleUpdateBoardImage(id, v) ==
    /\ localBoard # Null
    /\ id \in IdsOf(localBoard.images)
    /\ PlainMutation("images", mapUpdate(localBoard.images, id, v))
    /\ Issued("handleUpdateBoardImage", id)
    /\ UNCHANGED <<ret, selectedNoteId, selectedLabelId, selectedLineId,
                   selectedImageId, nextId, pvars, currentTool>>

handleDeleteBoardImage(id) ==
    /\ localBoard # Null
    /\ id \in IdsOf(localBoard.images)
    /\ PlainMutation("images", filterOut(localBoard.images, id))
    /\ selectedImageId' = IF selectedImageId = id THEN 0 ELSE selectedImageId
    /\ Issued("handleDeleteBoardImage", id)
    /\ UNCHANGED <<ret, selectedNoteId, selectedLabelId, selectedLineId,
                   nextId, pvars, currentTool>>

clearSelection ==
    /\ selectedNoteId' = 0
    /\ selectedLabelId' = 0
    /\ selectedLineId' = 0
    /\ selectedImageId' = 0

handleClearBoard ==
    /\ localBoard # Null
    /\ localBoard' = EmptyBoard
    /\ hasUnsavedChanges' = TRUE
    /\ clearSelection
    /\ Issued("handleClearBoard", 0)
    /\ UNCHANGED <<past, future, ret, nextId, pvars, currentTool>>

safeUndo ==
    /\ localBoard # Null
    /\ undo
    /\ IF ret' # Null /\ localBoard # Null
       THEN /\ localBoard' = ret'
            /\ hasUnsavedChanges' = TRUE
       ELSE UNCHANGED <<localBoard, hasUnsavedChanges>>
    /\ Issued("safeUndo", 0)
    /\ UNCHANGED <<selectedNoteId, selectedLabelId, selectedLineId,
                   selectedImageId, nextId, pvars, currentTool>>

safeRedo ==
    /\ localBoard # Null
    /\ redo
    /\ IF ret' # Null /\ localBoard # Null
       THEN /\ localBoard' = ret'
            /\ hasUnsavedChanges' = TRUE
       ELSE UNCHANGED <<localBoard, hasUnsavedChanges>>
    /\ Issued("safeRedo", 0)
    /\ UNCHANGED <<selectedNoteId, selectedLabelId, selectedLineId,
                   selectedImageId, nextId, pvars, currentTool>>

\* what a selection handler leaves alone
selFrame ==
    UNCHANGED <<hvars, localBoard, hasUnsavedChanges, nextId, opsLeft, prev,
                pvars, cvars>>

\* StickyNote onSelect: with the cursor tool and no panning,
\* clearSelection(); setSelectedNoteId(note.id)
onSelectNote(id) ==
    /\ localBoard # Null
    /\ id \in IdsOf(localBoard.stickyNotes)
    /\ currentTool = "cursor" /\ ~isPanning /\ ~isSpacePressed
    /\ selectedNoteId' = id
    /\ selectedLabelId' = 0
    /\ selectedLineId' = 0
    /\ selectedImageId' = 0
    /\ selFrame

\* TextLabel onSelect: with the cursor tool and no panning,
\* clearSelection(); setSelectedLabelId(label.id)
onSelectLabel(id) ==
    /\ localBoard # Null
    /\ id \in IdsOf(localBoard.textLabels)
    /\ currentTool = "cursor" /\ ~isPanning /\ ~isSpacePressed
    /\ selectedNoteId' = 0
    /\ selectedLabelId' = id
    /\ selectedLineId' = 0
    /\ selectedImageId' = 0
    /\ selFrame

\* LineCanvas handleLineClick, outside line mode: onSelectLine(id), that is
\* clearSelection(); setSelectedLineId(id)
onSelectLine(id) ==
    /\ localBoard # Null
    /\ id \in IdsOf(localBoard.lines)
    /\ ~(currentTool = "line" /\ ~isPanning /\ ~isSpacePressed)
    /\ selectedNoteId' = 0
    /\ selectedLabelId' = 0
    /\ selectedLineId' = id
    /\ selectedImageId' = 0
    /\ selFrame

\* BoardImage onSelect: with the cursor tool and no panning,
\* clearSelection(); setSelectedImageId(image.id)
onSelectImage(id) ==
    /\ localBoard # Null
    /\ id \in IdsOf(localBoard.images)
    /\ currentTool = "cursor" /\ ~isPanning /\ ~isSpacePressed
    /\ selectedNoteId' = 0
    /\ selectedLabelId' = 0
    /\ selectedLineId' = 0
    /\ selectedImageId' = id
    /\ selFrame

\* a click on the empty canvas with a tool other than text
handleCanvasClick ==
    /\ localBoard # Null
    /\ clearSelection
    /\ selFrame

(***************************************************************************)
(* Board: the query, the save mutation and the server behind them.         *)
(* A request in flight is [content, status]: "sent" until the route has    *)
(* handled it, then the response's HTTP status until the client has        *)
(* handled that.  The database isolates transactions: nothing outside a    *)
(* transaction sees its rows before it commits, so the route's handling of *)
(* one request is one step, with the statement that throws, if any, as its *)
(* input.                                                                  *)
(***************************************************************************)
\* the tables saveBoardContent clears and fills, in its order
Tables == <<"stickyNotes", "drawings", "textLabels", "lines", "images">>

\* statements of the transaction: five deletes, five inserts, one update
NumStatements == 11

\* a save that forgets to insert the lines
saveStatementNoLines(k, rows, content) ==
    IF k <= 5 THEN [rows EXCEPT ![Tables[k]] = <<>>]
    ELSE IF k <= 10 /\ Tables[k - 5] # "lines"
        THEN IF Len(content[Tables[k - 5]]) > 0
             THEN [rows EXCEPT ![Tables[k - 5]] = rows[Tables[k - 5]] \o content[Tables[k - 5]]]
             ELSE rows
    ELSE rows

\* the k-th statement of saveBoardContent applied to the transaction's rows
saveStatement(k, rows, content) ==
    IF k <= 5 THEN [rows EXCEPT ![Tables[k]] = <<>>]
    ELSE IF k <= 10
        THEN IF Len(content[Tables[k - 5]]) > 0
             THEN [rows EXCEPT ![Tables[k - 5]] = rows[Tables[k - 5]] \o content[Tables[k - 5]]]
             ELSE rows
    ELSE rows

\* the transaction's rows after the first n statements of saveBoardContent
RECURSIVE saveBoardContent(_, _, _)
saveBoardContent(rows, content, n) ==
    IF n = 0 THEN rows
    ELSE saveStatement(n, saveBoardContent(rows, content, n - 1), content)

\* db.transaction: what is committed once the callback has thrown
rollback(committed, rows) == committed

\* the requests with a given status
WithStatus(st) == {i \in 1..Len(saves) : saves[i].status = st}

\* saves without its i-th request
Without(i) == SubSeq(saves, 1, i - 1) \o SubSeq(saves, i + 1, Len(saves))

\* what a step of the server leaves alone
serverFrame ==
    UNCHANGED <<hvars, localBoard, hasUnsavedChanges, serverBoardData,
                refetchPending, selectedNoteId, selectedLabelId,
                selectedLineId, selectedImageId, nextId, opsLeft, prev, cvars>>

\* a query whose every response replaces the local board
FetchBoardOverwrites ==
    /\ refetchPending
    /\ serverBoardData' = remote
    /\ refetchPending' = FALSE
    /\ localBoard' = remote
    /\ UNCHANGED <<hvars, hasUnsavedChanges, selectedNoteId, selectedLabelId,
                   selectedLineId, selectedImageId, nextId, saves, remote, opsLeft,
                   prev, cvars>>

\* useQuery's queryFn and the effect that initialises localBoard
FetchBoard ==
    /\ refetchPending
    /\ serverBoardData' = remote
    /\ refetchPending' = FALSE
    /\ localBoard' = IF localBoard = Null /\ ~hasUnsavedChanges
                     THEN remote ELSE localBoard
    /\ UNCHANGED <<hvars, hasUnsavedChanges, selectedNoteId, selectedLabelId,
                   selectedLineId, selectedImageId, nextId, saves, remote, opsLeft,
                   prev, cvars>>

\* handleSave: saveBoardMutation.mutate() up to the fetch of api.saveBoard
handleSave ==
    /\ localBoard # Null
    /\ opsLeft > 0
    /\ opsLeft' = opsLeft - 1
    /\ saves' = Append(saves, [content |-> localBoard, status |-> "sent"])
    /\ UNCHANGED <<hvars, localBoard,
                   hasUnsavedChanges, serverBoardData, refetchPending,
                   selectedNoteId, selectedLabelId, selectedLineId,
                   selectedImageId, nextId, remote, prev, cvars>>

\* POST /api/boards/:id/save: the board is not found or not the user's
RouteNotFound(i) ==
    /\ saves[i].status = "sent"
    /\ saves' = [saves EXCEPT ![i].status = "404"]
    /\ UNCHANGED remote
    /\ serverFrame

\* POST /api/boards/:id/save when every statement succeeds: the transaction
\* commits its rows and the route answers 200
RouteSaveCommit(i) ==
    /\ saves[i].status = "sent"
    /\ remote' = saveBoardContent(remote, saves[i].content, NumStatements)
    /\ saves' = [saves EXCEPT ![i].status = "200"]
    /\ serverFrame

\* POST /api/boards/:id/save when statement k throws: the transaction rolls
\* back what the statements before it wrote and the route answers 500
RouteSaveFail(i, k) ==
    /\ saves[i].status = "sent"
    /\ remote' = rollback(remote, saveBoardContent(remote, saves[i].content, k - 1))
    /\ saves' = [saves EXCEPT ![i].status = "500"]
    /\ serverFrame

\* an error handler that gives up the unsaved changes
onErrorDirtyCleared(dirty) == FALSE

\* hasUnsavedChanges after onError, which does not set it
onErrorDirty(dirty) == dirty

\* saveBoardMutation.onSuccess
onSuccess(i) ==
    /\ saves[i].status = "200"
    /\ saves' = Without(i)
    /\ refetchPending' = TRUE
    /\ hasUnsavedChanges' = FALSE
    /\ lastOp' = "onSuccess"
    /\ UNCHANGED <<maxSize, past, future, ret, pushed, consec, localBoard,
                   serverBoardData, selectedNoteId, selectedLabelId,
                   selectedLineId, selectedImageId, nextId, remote, opsLeft, prev,
                   cvars>>

\* api.saveBoard throws on a response that is not ok; saveBoardMutation.onError
onError(i) ==
    /\ saves[i].status \in {"404", "500"}
    /\ saves' = Without(i)
    /\ hasUnsavedChanges' = onErrorDirty(hasUnsavedChanges)
    /\ lastOp' = "onError"
    /\ UNCHANGED <<maxSize, past, future, ret, pushed, consec, localBoard,
                   serverBoardData, refetchPending, selectedNoteId,
                   selectedLabelId, selectedLineId, selectedImageId, nextId,
                   remote, opsLeft, prev, cvars>>

\* the rows a board can hold in the database when the page opens
StoredBoards == {EmptyBoard, [EmptyBoard EXCEPT !.stickyNotes = <<NewObject(1)>>]}

BoardInit ==
    /\ maxSize = BoardHistorySize
    /\ past = <<>>
    /\ future = <<>>
    /\ ret = Null
    /\ lastOp = "init"
    /\ pushed = <<>>
    /\ consec = 0
    /\ localBoard = Null
    /\ hasUnsavedChanges = FALSE
    /\ serverBoardData = Null
    /\ refetchPending = TRUE
    /\ selectedNoteId = 0
    /\ selectedLabelId = 0
    /\ selectedLineId = 0
    /\ selectedImageId = 0
    /\ nextId = 1
    /\ saves = <<>>
    /\ remote \in StoredBoards
    /\ opsLeft = MaxBoardOps
    /\ prev = [stage |-> 0, id |-> 0, snap |-> Null]
    /\ CanvasInit
    /\ call = Null
    /\ result = Null

\* the page's events that do not involve a save
StoreNext ==
    \/ FetchBoard
    \/ createNote
    \/ \E id \in 1..MaxIds, v \in 1..MaxVal : handleUpdateNote(id, v)
    \/ \E id \in 1..MaxIds : handleDeleteNote(id)
    \/ handleAddDrawingLocal
    \/ handleCreateTextLabel
    \/ \E id \in 1..MaxIds, v \in 1..MaxVal : handleUpdateTextLabel(id, v)
    \/ \E id \in 1..MaxIds : handleDeleteTextLabel(id)
    \/ handleCreateLine
    \/ \E id \in 1..MaxIds, v \in 1..MaxVal : handleUpdateLine(id, v)
    \/ \E id \in 1..MaxIds : handleDeleteLine(id)
    \/ handleCreateBoardImage
    \/ \E id \in 1..MaxIds, v \in 1..MaxVal : handleUpdateBoardImage(id, v)
    \/ \E id \in 1..MaxIds : handleDeleteBoardImage(id)
    \/ handleClearBoard
    \/ safeUndo
    \/ safeRedo
    \/ \E id \in 1..MaxIds : onSelectNote(id)
    \/ \E id \in 1..MaxIds : onSelectLabel(id)
    \/ \E id \in 1..MaxIds : onSelectLine(id)
    \/ \E id \in 1..MaxIds : onSelectImage(id)
    \/ handleCanvasClick

\* the save button, the server and the mutation's callbacks
SaveNext ==
    \/ handleSave
    \/ \E i \in 1..Len(saves) : RouteNotFound(i)
    \/ \E i \in 1..Len(saves) : RouteSaveCommit(i)
    \/ \E i \in 1..Len(saves), k \in 1..NumStatements : RouteSaveFail(i, k)
    \/ \E i \in 1..Len(saves) : onSuccess(i)
    \/ \E i \in 1..Len(saves) : onError(i)

BoardNext == StoreNext \/ SaveNext

\* the page with its server
BoardSpec == BoardInit /\ [][BoardNext]_vars

\* the page in a session in which the user never saves
StoreInit ==
    /\ maxSize = BoardHistorySize
    /\ past = <<>>
    /\ future = <<>>
    /\ ret = Null
    /\ lastOp = "init"
    /\ pushed = <<>>
    /\ consec = 0
    /\ localBoard = Null
    /\ hasUnsavedChanges = FALSE
    /\ serverBoardData = Null
    /\ refetchPending = TRUE
    /\ selectedNoteId = 0
    /\ selectedLabelId = 0
    /\ selectedLineId = 0
    /\ selectedImageId = 0
    /\ nextId = 1
    /\ saves = <<>>
    /\ remote \in StoredBoards
    /\ opsLeft = MaxStoreOps
    /\ prev = [stage |-> 0, id |-> 0, snap |-> Null]
    /\ CanvasInit
    /\ call = Null
    /\ result = Null

StoreSpec == StoreInit /\ [][StoreNext]_vars

(***************************************************************************)
(* Board: loading a template.  handleLoadPreset calls the create handlers  *)
(* several times in one event: every call reads localBoard from the        *)
(* closure of the same render, while the setLocalBoard updaters run one    *)
(* after the other, each on the board the one before it returned.          *)
(***************************************************************************)
MaxPresetOps == 3   \* template loads, undos and redos in a run

\* the calls of addLabel, addL and addNote each template makes, in order
PresetItems ==
    [kanban |-> <<"label", "label", "label", "label", "line", "line", "line",
                  "note", "note", "note", "note", "note">>,
     swot |-> <<"label", "label", "label", "label", "line", "line",
                "note", "note", "note", "note">>,
     persona |-> <<"label", "note", "note", "note", "note", "note">>,
     brainstorm |-> <<"label", "note", "note", "note", "note", "note">>,
     pros_cons |-> <<"label", "label", "line", "note", "note", "note", "note">>,
     timeline |-> <<"label", "line", "note", "note", "note", "note">>,
     rocket |-> <<"label", "note", "note", "note", "line", "line">>]

PresetType == DOMAIN PresetItems

\* the collection each create handler appends to
PresetField == [label |-> "textLabels", line |-> "lines", note |-> "stickyNotes"]

\* the state the queued updaters of one event have reached, and the trail
\* of the event: the board right before and right after each mutation
pending(board, p, f, ids, noteId, labelId, trail) ==
    [board |-> board, past |-> p, future |-> f, nextId |-> ids,
     selectedNoteId |-> noteId, selectedLabelId |-> labelId, trail |-> trail]

\* one call of createNote, handleCreateTextLabel or handleCreateLine inside
\* the event: beforeState is what the closure holds, the updater works on
\* the board the queue has reached
addItem(st, kind, beforeState) ==
    LET id == st.nextId + 1
        field == PresetField[kind]
        afterState == [st.board EXCEPT ![field] = Append(st.board[field], NewObject(id))]
        entry == [type |-> "create", elementType |-> "note",
                  before |-> beforeState, after |-> afterState]
        step == [elementType |-> kind, before |-> st.board, after |-> afterState]
    IN  pending(afterState,
                IF kind = "note" THEN pushPast(st.past, entry, maxSize) ELSE st.past,
                IF kind = "note" THEN pushFuture(st.future) ELSE st.future,
                id,
                IF kind = "note" THEN id ELSE st.selectedNoteId,
                IF kind = "label" THEN id ELSE st.selectedLabelId,
                Append(st.trail, step))

RECURSIVE loadItems(_, _, _)
loadItems(items, st, beforeState) ==
    IF items = <<>> THEN st
    ELSE loadItems(Tail(items), addItem(st, Head(items), beforeState), beforeState)

handleLoadPreset(preset) ==
    /\ localBoard # Null
    /\ LET beforeState == orEmpty(localBoard)
           st == loadItems(PresetItems[preset],
                           pending(orEmpty(localBoard), past, future, nextId,
                                   selectedNoteId, selectedLabelId, <<>>),
                           beforeState)
       IN  /\ localBoard' = st.board
           /\ past' = st.past
           /\ future' = st.future
           /\ nextId' = st.nextId
           /\ selectedNoteId' = st.selectedNoteId
           /\ selectedLabelId' = st.selectedLabelId
           /\ result' = st.trail
    /\ hasUnsavedChanges' = TRUE
    /\ currentTool' = "cursor"
    /\ Counted("handleLoadPreset", 0)
    /\ listeners' = unmount(listeners, localBoard')
    /\ dragging' = {c \in dragging : rendered(c.kind, c.id, localBoard')}
    /\ UNCHANGED <<ret, selectedLineId, selectedImageId, pvars, isSpacePressed,
                   isPanning, dragMode, startPoint, currentEndPoint, zoom, pan, call>>

PresetInit ==
    /\ maxSize = BoardHistorySize
    /\ past = <<>>
    /\ future = <<>>
    /\ ret = Null
    /\ lastOp = "init"
    /\ pushed = <<>>
    /\ consec = 0
    /\ localBoard = EmptyBoard
    /\ hasUnsavedChanges = FALSE
    /\ serverBoardData = EmptyBoard
    /\ refetchPending = FALSE
    /\ selectedNoteId = 0
    /\ selectedLabelId = 0
    /\ selectedLineId = 0
    /\ selectedImageId = 0
    /\ nextId = 0
    /\ saves = <<>>
    /\ remote = EmptyBoard
    /\ opsLeft = MaxPresetOps
    /\ prev = [stage |-> 0, id |-> 0, snap |-> Null]
    /\ CanvasInit
    /\ call = Null
    /\ result = <<>>

PresetNext ==
    \/ \E preset \in PresetType : handleLoadPreset(preset)
    \/ safeUndo
    \/ safeRedo

PresetSpec == PresetInit /\ [][PresetNext]_vars

(***************************************************************************)
(* Viewport: the zoom handlers of the board page.  zoom is held in         *)
(* ten-thousandths (1.0 is 10000), a wheel event's deltaY in quarters of a *)
(* unit, so that every value the handlers compute is an integer.  Each     *)
(* coordinate of pan is a fraction [n, d] of a screen pixel in lowest      *)
(* terms with d > 0; the cursor of a wheel event is at whole pixels,       *)
(* measured from the corner of the canvas container.                       *)
(***************************************************************************)
MIN_ZOOM == 2500
MAX_ZOOM == 30000

\* Math.min(a, b), Math.max(a, b), Math.abs(a)
Min(a, b) == IF a < b THEN a ELSE b
Max(a, b) == IF a > b THEN a ELSE b
Abs(a) == IF a < 0 THEN -a ELSE a

\* Math.round(z * 100) of a zoom z > 0: halves round up
zoomPercent(z) == (z + 50) \div 100

\* Math.ceil(a / b) and Math.floor(a / b) for a >= 0, b > 0
ceilDiv(a, b) == (a + b - 1) \div b
floorDiv(a, b) == a \div b

\* handleWheel: -e.deltaY * zoomSpeed, with the speed of a trackpad
\* (|deltaY| < 50) or of a mouse wheel
zoomDelta(deltaYq) ==
    IF Abs(deltaYq) < 200 THEN -5 * deltaYq ELSE -125 * deltaYq

\* a wheel handler that forgets the upper limit
wheelZoomUnclamped(z, deltaYq) == Max(MIN_ZOOM, z + zoomDelta(deltaYq))

\* handleWheel: newZoom
wheelZoom(z, deltaYq) == Min(MAX_ZOOM, Max(MIN_ZOOM, z + zoomDelta(deltaYq)))

\* a zoom-in that steps by 50 percentage points
zoomInNextDouble(z) == ceilDiv(zoomPercent(z), 25) * 25 + 50

\* handleZoomIn: nextPercent
zoomInNext(z) == ceilDiv(zoomPercent(z), 25) * 25 + 25

\* handleZoomOut: nextPercent
zoomOutNext(z) == floorDiv(zoomPercent(z), 25) * 25 - 25

RECURSIVE gcd(_, _)
gcd(a, b) == IF b = 0 THEN a ELSE gcd(b, a % b)

\* the fraction n / d, d > 0, in lowest terms
fraction(n, d) ==
    LET g == gcd(Abs(n), d) IN [n |-> n \div g, d |-> d \div g]

\* pan: { x: 0, y: 0 }
ZeroPan == [x |-> fraction(0, 1), y |-> fraction(0, 1)]

\* a wheel handler that scales by zoom / newZoom
newPanInverse(mouse, p, newZoom, z) ==
    fraction(mouse * p.d * (newZoom \div 5) - (mouse * p.d - p.n) * (z \div 5),
             p.d * (newZoom \div 5))

\* handleWheel: newPanX = mouseX - (mouseX - pan.x) * zoomRatio, with
\* zoomRatio = newZoom / zoom (every zoom is a multiple of 0.0005)
newPan(mouse, p, newZoom, z) ==
    fraction(mouse * p.d * (z \div 5) - (mouse * p.d - p.n) * (newZoom \div 5),
             p.d * (z \div 5))

\* the steps of the zoom buttons since the zoom was last 1.0 by mount or reset
\* with only button steps after it; <<"off">> once a wheel event has come
\* between or after four steps
trailAfter(op) ==
    IF op = "handleResetZoom" THEN <<>>
    ELSE IF op = "handleWheel" \/ prev.trail = <<"off">> \/ Len(prev.trail) >= 4
        THEN <<"off">>
    ELSE Append(prev.trail, op)

\* what a zoom handler leaves alone
zoomFrame ==
    UNCHANGED <<hvars, localBoard, hasUnsavedChanges, pvars, selectedNoteId,
                selectedLabelId, selectedLineId, selectedImageId, nextId, opsLeft,
                currentTool, gvars, isSpacePressed, isPanning, dragMode,
                startPoint, currentEndPoint, result>>

\* handleWheel for an event with deltaY = deltaYq / 4 and the cursor at
\* mouse, over the mounted canvas
handleWheel(deltaYq, mouse) ==
    LET newZoom == wheelZoom(zoom, deltaYq)
    IN  /\ IF Abs(newZoom - zoom) > 10
           THEN /\ pan' = [x |-> newPan(mouse.x, pan.x, newZoom, zoom),
                           y |-> newPan(mouse.y, pan.y, newZoom, zoom)]
                /\ zoom' = newZoom
           ELSE UNCHANGED <<zoom, pan>>
        /\ call' = [op |-> "handleWheel", from |-> zoom,
                    requested |-> zoom + zoomDelta(deltaYq),
                    mouse |-> mouse, pan |-> pan]
        /\ prev' = [trail |-> trailAfter("handleWheel")]
        /\ zoomFrame

handleZoomIn ==
    /\ zoom' = Min(MAX_ZOOM, zoomInNext(zoom) * 100)
    /\ call' = [op |-> "handleZoomIn", from |-> zoom,
                requested |-> zoomInNext(zoom) * 100,
                mouse |-> [x |-> 0, y |-> 0], pan |-> pan]
    /\ prev' = [trail |-> trailAfter("handleZoomIn")]
    /\ UNCHANGED pan
    /\ zoomFrame

handleZoomOut ==
    /\ zoom' = Max(MIN_ZOOM, Max(25, zoomOutNext(zoom)) * 100)
    /\ call' = [op |-> "handleZoomOut", from |-> zoom,
                requested |-> zoomOutNext(zoom) * 100,
                mouse |-> [x |-> 0, y |-> 0], pan |-> pan]
    /\ prev' = [trail |-> trailAfter("handleZoomOut")]
    /\ UNCHANGED pan
    /\ zoomFrame

handleResetZoom ==
    /\ zoom' = 10000
    /\ pan' = ZeroPan
    /\ call' = [op |-> "handleResetZoom", from |-> zoom, requested |-> 10000,
                mouse |-> [x |-> 0, y |-> 0], pan |-> pan]
    /\ prev' = [trail |-> trailAfter("handleResetZoom")]
    /\ zoomFrame

\* deltaY of the wheel events, in quarters: trackpad and pinch deltas down to
\* a quarter of a unit, the largest trackpad delta, mouse wheel notches
WheelDeltas == {-400, -200, -199, -40, -4, -2, -1, 0, 1, 2, 4, 40, 199, 200, 400}

\* a page whose board, history and server play no part
QuietPage ==
    /\ maxSize = BoardHistorySize
    /\ past = <<>>
    /\ future = <<>>
    /\ ret = Null
    /\ lastOp = "init"
    /\ pushed = <<>>
    /\ consec = 0
    /\ localBoard = EmptyBoard
    /\ hasUnsavedChanges = FALSE
    /\ serverBoardData = EmptyBoard
    /\ refetchPending = FALSE
    /\ selectedNoteId = 0
    /\ selectedLabelId = 0
    /\ selectedLineId = 0
    /\ selectedImageId = 0
    /\ nextId = 0
    /\ saves = <<>>
    /\ remote = EmptyBoard
    /\ opsLeft = 0

ZoomInit ==
    /\ QuietPage
    /\ CanvasInit
    /\ call = [op |-> "mount", from |-> 10000, requested |-> 10000,
               mouse |-> [x |-> 0, y |-> 0], pan |-> ZeroPan]
    /\ result = Null
    /\ prev = [trail |-> <<>>]

ZoomNext ==
    \/ \E deltaYq \in WheelDeltas : handleWheel(deltaYq, [x |-> 0, y |-> 0])
    \/ handleZoomIn
    \/ handleZoomOut
    \/ handleResetZoom

\* the zoom handlers, with every wheel event at the corner of the container
ZoomSpec == ZoomInit /\ [][ZoomNext]_vars

\* zoom values the handlers produce, pan offsets that panning and earlier
\* wheel events leave, cursor positions of a wheel event
ZoomValues == {2500, 2505, 9995, 10000, 10995, 12500, 29990, 30000}
PanOffsets ==
    {ZeroPan, [x |-> fraction(-120, 1), y |-> fraction(45, 1)],
     [x |-> fraction(-241, 2), y |-> fraction(700, 3)]}
CursorPoints == {[x |-> 0, y |-> 0], [x |-> 400, y |-> 300], [x |-> 1, y |-> 799]}

\* a viewport that zooming and panning have left somewhere
WheelInit ==
    /\ QuietPage
    /\ currentTool = "cursor"
    /\ isSpacePressed = FALSE
    /\ isPanning = FALSE
    /\ listeners = <<>>
    /\ dragging = {}
    /\ dragMode = "none"
    /\ startPoint = Null
    /\ currentEndPoint = Null
    /\ zoom \in ZoomValues
    /\ pan \in PanOffsets
    /\ call = [op |-> "mount", from |-> zoom, requested |-> zoom,
               mouse |-> [x |-> 0, y |-> 0], pan |-> pan]
    /\ result = Null
    /\ prev = [trail |-> <<"off">>]

\* one wheel event on that viewport, with the cursor anywhere
WheelNext ==
    \E deltaYq \in WheelDeltas, mouse \in CursorPoints :
        call.op = "mount" /\ handleWheel(deltaYq, mouse)

WheelSpec == WheelInit /\ [][WheelNext]_vars

(***************************************************************************)
(* LineCanvas: the line tool.  While a line is drawn its end point is held *)
(* in polar form about startPoint: r is the distance in canvas units, a    *)
(* the direction in half degrees.  A pointer event's point comes in the    *)
(* same form, with any representation of its direction.                    *)
(***************************************************************************)
\* isLineMode={currentTool === 'line' && !isPanning && !isSpacePressed}
isLineMode == currentTool = "line" /\ ~isPanning /\ ~isSpacePressed

\* Math.atan2(dy, dx) * (180 / Math.PI): the direction in (-180, 180] degrees,
\* 0 for the zero vector
atan2(p) ==
    IF p.r = 0 THEN 0
    ELSE LET m == p.a % 720 IN IF m > 360 THEN m - 720 ELSE m

\* Math.sqrt(dx * dx + dy * dy)
distance(p) == p.r

\* a candidate list without the second representation of 180 degrees
snapAnglesOnce == <<0, 90, 180, 270, 360, -90, -180, -270>>

\* snapAngles = [0, 45, 90, 135, 180, -45, -90, -135, -180]
snapAngles == <<0, 90, 180, 270, 360, -90, -180, -270, -360>>

\* the for loop of snapAngle over the first n candidates
RECURSIVE closestSnap(_, _)
closestSnap(angle, n) ==
    IF n = 0
    THEN [closestAngle |-> snapAngles[1], minDiff |-> Abs(angle - snapAngles[1])]
    ELSE LET sofar == closestSnap(angle, n - 1)
             diff == Abs(angle - snapAngles[n])
         IN  IF diff < sofar.minDiff
             THEN [closestAngle |-> snapAngles[n], minDiff |-> diff]
             ELSE sofar

\* snapAngle(startX, startY, endX, endY), end being given about the start
snapAngle(end) ==
    LET angle == atan2(end)
        c == closestSnap(angle, Len(snapAngles))
    IN  IF c.minDiff < 30
        THEN [r |-> distance(end), a |-> c.closestAngle]
        ELSE end

\* what a handler of the line tool leaves alone
lineFrame ==
    UNCHANGED <<hvars, localBoard, hasUnsavedChanges, pvars, selectedNoteId,
                selectedLabelId, selectedLineId, selectedImageId, nextId, opsLeft,
                prev, currentTool, gvars, isSpacePressed, isPanning, zoom,
                pan>>

\* Toolbar onToolChange={setCurrentTool}
setCurrentTool(tool) ==
    /\ tool # currentTool
    /\ currentTool' = tool
    /\ UNCHANGED <<hvars, bvars, gvars, uvars>>

\* LineCanvas handlePointerDown with the event at point
handlePointerDown(point) ==
    /\ isLineMode
    /\ startPoint' = point
    /\ currentEndPoint' = [r |-> 0, a |-> 0]
    /\ dragMode' = "draw"
    /\ UNCHANGED <<call, result>>
    /\ lineFrame

\* LineCanvas handlePointerMove with the event at rawEnd, while it draws
handlePointerMove(rawEnd) ==
    /\ dragMode = "draw" /\ isLineMode /\ startPoint # Null
    /\ currentEndPoint' = snapAngle(rawEnd)
    /\ call' = [op |-> "snapAngle", rawEnd |-> rawEnd]
    /\ result' = snapAngle(rawEnd)
    /\ UNCHANGED <<startPoint, dragMode>>
    /\ lineFrame

\* cleanupRef.current(): the listeners of a line handle gesture are removed
cleanupLine(ls) == SelectSeq(ls, LAMBDA l : l.kind # "line")

\* the pointer is over the svg or one of its lines: the svg takes pointer
\* events in line mode, the lines of the board take them otherwise
overLineCanvas ==
    isLineMode \/ (localBoard # Null /\ Len(localBoard.lines) > 0)

\* LineCanvas handlePointerUp (onPointerUp and onPointerLeave of the svg),
\* with onAddLine = handleCreateLine and resetDragState
handlePointerUp ==
    /\ overLineCanvas
    /\ IF /\ dragMode = "draw" /\ isLineMode
          /\ startPoint # Null /\ currentEndPoint # Null
          /\ distance(currentEndPoint) > 10
       THEN /\ localBoard # Null
            /\ nextId < MaxIds
            /\ PlainMutation("lines", Append(localBoard.lines, NewObject(generateId)))
            /\ nextId' = generateId
            /\ Counted("handleCreateLine", generateId)
       ELSE UNCHANGED <<hvars, localBoard, hasUnsavedChanges, nextId, opsLeft, prev>>
    /\ dragMode' = "none"
    /\ startPoint' = Null
    /\ currentEndPoint' = Null
    /\ listeners' = cleanupLine(listeners)
    /\ UNCHANGED <<ret, pvars, selectedNoteId, selectedLabelId, selectedLineId,
                   selectedImageId, currentTool, dragging, isSpacePressed,
                   isPanning, zoom, pan, call,
                   result>>

\* the points of pointer events on the canvas
StartPoints == {[x |-> 120, y |-> 80]}

\* points about the start of a line: the start itself and the points at
\* distance 40 in every direction from -225 to 225 degrees, by half degrees
SnapInputs == {[r |-> 0, a |-> 0]} \cup [r : {40}, a : -450..450]

MaxLines == 1       \* lines committed in a run of the line tool

\* the line tool on a loaded, empty board
SnapInit ==
    /\ maxSize = BoardHistorySize
    /\ past = <<>>
    /\ future = <<>>
    /\ ret = Null
    /\ lastOp = "init"
    /\ pushed = <<>>
    /\ consec = 0
    /\ localBoard = EmptyBoard
    /\ hasUnsavedChanges = FALSE
    /\ serverBoardData = EmptyBoard
    /\ refetchPending = FALSE
    /\ selectedNoteId = 0
    /\ selectedLabelId = 0
    /\ selectedLineId = 0
    /\ selectedImageId = 0
    /\ nextId = 0
    /\ saves = <<>>
    /\ remote = EmptyBoard
    /\ opsLeft = MaxLines
    /\ prev = [stage |-> 0, id |-> 0, snap |-> Null]
    /\ CanvasInit
    /\ call = [op |-> "none", rawEnd |-> [r |-> 0, a |-> 0]]
    /\ result = [r |-> 0, a |-> 0]

SnapNext ==
    \/ \E tool \in {"cursor", "line"} : setCurrentTool(tool)
    \/ \E point \in StartPoints : handlePointerDown(point)
    \/ \E rawEnd \in SnapInputs : handlePointerMove(rawEnd)
    \/ handlePointerUp

SnapSpec == SnapInit /\ [][SnapNext]_vars

(***************************************************************************)
(* The line tool when a draw is not released: the pointer leaves the svg.  *)
(* The svg has no onPointerCancel and a draw registers no listener on the  *)
(* document: a cancelled pointer reaches the tool as the pointerleave the  *)
(* browser dispatches after the pointercancel.                             *)
(***************************************************************************)
\* onPointerLeave={handlePointerUp}: the pointer leaves the svg, or is
\* cancelled over it
handlePointerLeave ==
    /\ overLineCanvas
    /\ IF /\ dragMode = "draw" /\ isLineMode
          /\ startPoint # Null /\ currentEndPoint # Null
          /\ distance(currentEndPoint) > 10
       THEN /\ localBoard # Null
            /\ nextId < MaxIds
            /\ PlainMutation("lines", Append(localBoard.lines, NewObject(generateId)))
            /\ nextId' = generateId
            /\ Counted("handleCreateLine", generateId)
       ELSE UNCHANGED <<hvars, localBoard, hasUnsavedChanges, nextId, opsLeft, prev>>
    /\ dragMode' = "none"
    /\ startPoint' = Null
    /\ currentEndPoint' = Null
    /\ listeners' = cleanupLine(listeners)
    /\ call' = [call EXCEPT !.op = "pointerleave"]
    /\ UNCHANGED <<ret, pvars, selectedNoteId, selectedLabelId, selectedLineId,
                   selectedImageId, currentTool, dragging, isSpacePressed,
                   isPanning, zoom, pan, result>>

\* points about the start of a line: at, below, just above and well above
\* the length a line must exceed, in four directions
AbortInputs == [r : {0, 10, 11, 40}, a : {-180, 0, 60, 90}]

AbortNext ==
    \/ \E tool \in {"cursor", "line"} : setCurrentTool(tool)
    \/ \E point \in StartPoints : handlePointerDown(point)
    \/ \E rawEnd \in AbortInputs : handlePointerMove(rawEnd)
    \/ handlePointerUp
    \/ handlePointerLeave

AbortSpec == SnapInit /\ [][AbortNext]_vars

(***************************************************************************)
(* The resize gesture of StickyNote and BoardImage.  A length is a         *)
(* fraction [n, d] of a pixel with d > 0, so that the division by zoom and *)
(* by the aspect ratio is exact; zoom is in hundredths and pointer deltas  *)
(* are whole screen pixels.                                                *)
(***************************************************************************)
\* the whole number k as a length
px(k) == [n |-> k, d |-> 1]

\* a + b
plus(a, b) == [n |-> a.n * b.d + b.n * a.d, d |-> a.d * b.d]

\* a < b
less(a, b) == a.n * b.d < b.n * a.d

\* Math.max(a, b)
maxLen(a, b) == IF less(a, b) THEN b ELSE a

\* (moveEvent.clientX - startX) / zoom
overZoom(delta, zoomPct) == [n |-> delta * 100, d |-> zoomPct]

\* newWidth / aspectRatio, with aspectRatio = startWidth / startHeight
overAspect(w, startWidth, startHeight) ==
    [n |-> w.n * startHeight, d |-> w.d * startWidth]

\* Math.round
round(a) == (2 * a.n + a.d) \div (2 * a.d)

\* StickyNote handleResizeMove / handleResizeEnd: the size for a pointer
\* that is (dx, dy) screen pixels from where the gesture started
noteSize(startWidth, startHeight, zoomPct, dx, dy) ==
    [width  |-> maxLen(px(60), plus(px(startWidth), overZoom(dx, zoomPct))),
     height |-> maxLen(px(60), plus(px(startHeight), overZoom(dy, zoomPct)))]

\* BoardImage handleResizeMove / handleResizeEnd
imageSize(startWidth, startHeight, zoomPct, dx, dy, shiftKey) ==
    LET newWidth == maxLen(px(50), plus(px(startWidth), overZoom(dx, zoomPct)))
    IN  [width  |-> newWidth,
         height |-> IF shiftKey
                    THEN overAspect(newWidth, startWidth, startHeight)
                    ELSE maxLen(px(50), plus(px(startHeight), overZoom(dy, zoomPct)))]

\* the size a resize gesture gives for the pointer event of c
newSize(c) ==
    IF c.kind = "note"
    THEN noteSize(c.startWidth, c.startHeight, c.zoom, c.dx, c.dy)
    ELSE imageSize(c.startWidth, c.startHeight, c.zoom, c.dx, c.dy, c.shiftKey)

\* the pointer event (dx, dy, shiftKey) added to the gesture of call
withEvent(op, dx, dy, shiftKey) ==
    [call EXCEPT !.op = op, !.dx = dx, !.dy = dy, !.shiftKey = shiftKey]

resizeFrame ==
    UNCHANGED <<hvars, bvars, currentTool, gvars, isSpacePressed, isPanning,
                dragMode, startPoint, currentEndPoint, zoom,
                pan>>

\* handleResizeMove: the width and height written to the element's style
handleResizeMove(dx, dy, shiftKey) ==
    /\ call.op # "handleResizeEnd"
    /\ call' = withEvent("handleResizeMove", dx, dy, shiftKey)
    /\ result' = newSize(call')
    /\ resizeFrame

\* handleResizeEnd (pointerup and pointercancel): the width and height passed
\* to onUpdate
handleResizeEnd(dx, dy, shiftKey) ==
    /\ call.op # "handleResizeEnd"
    /\ call' = withEvent("handleResizeEnd", dx, dy, shiftKey)
    /\ result' = LET size == newSize(call')
                 IN  [width |-> px(round(size.width)), height |-> px(round(size.height))]
    /\ resizeFrame

\* sizes of an object when a resize starts, zoom levels, pointer deltas
StartWidths == {60, 200}
StartHeights == {60, 120, 200}
ZoomLevels == {25, 50, 100, 150, 300}
PointerDeltas == {-400, -100, -7, 0, 7, 100}

\* handleResizeStart has run on a note or an image
ResizeInit ==
    /\ QuietPage
    /\ CanvasInit
    /\ prev = [trail |-> <<>>]
    /\ \E kind \in {"note", "image"}, w \in StartWidths, h \in StartHeights,
          z \in ZoomLevels :
          /\ call = [op |-> "handleResizeStart", kind |-> kind, startWidth |-> w,
                     startHeight |-> h, zoom |-> z, dx |-> 0, dy |-> 0,
                     shiftKey |-> FALSE]
          /\ result = [width |-> px(w), height |-> px(h)]

ResizeNext ==
    \/ \E dx \in PointerDeltas, dy \in PointerDeltas, shiftKey \in BOOLEAN :
          handleResizeMove(dx, dy, shiftKey)
    \/ \E dx \in PointerDeltas, dy \in PointerDeltas, shiftKey \in BOOLEAN :
          handleResizeEnd(dx, dy, shiftKey)

ResizeSpec == ResizeInit /\ [][ResizeNext]_vars

(***************************************************************************)
(* Gestures on the canvas: the resize and rotate handles and the drag of   *)
(* StickyNote and BoardImage, the handles of a selected line, the line     *)
(* tool, the space key, and the board changes that a key or the toolbar    *)
(* can make while a pointer is down.  A listener group is [kind, id, mode, *)
(* live, before]: the component that registered its three document         *)
(* listeners, whether that component is still mounted with its gesture     *)
(* state set, and the board its onUpdate closure has captured.             *)
(***************************************************************************)
MaxGestureOps == 2  \* board mutations in a run of gestures
MaxPointers == 2    \* pointers that are down at the same time

\* the selection id of the kind of an object
selectedId(kind) ==
    IF kind = "note" THEN selectedNoteId
    ELSE IF kind = "image" THEN selectedImageId
    ELSE selectedLineId

\* a pointer can reach the component: the svg of the line tool (z-20) lies
\* over every note and image except the selected one (zIndex 50)
reachable(kind, id) ==
    /\ rendered(kind, id, localBoard)
    /\ ~isLineMode \/ selectedId(kind) = id

\* the gestures the components hold in their state: isResizing and
\* isRotating of a mounted note or image, a drag, the dragMode of LineCanvas
resizingOrRotating ==
    {[kind |-> listeners[i].kind, id |-> listeners[i].id, mode |-> listeners[i].mode] :
        i \in {j \in 1..Len(listeners) : listeners[j].kind # "line" /\ listeners[j].live}}

\* the pointers that are down
pointersDown ==
    Len(listeners) + Cardinality(dragging) + (IF dragMode = "draw" THEN 1 ELSE 0)

gestureFrame ==
    UNCHANGED <<hvars, bvars, currentTool, isSpacePressed, isPanning, startPoint,
                currentEndPoint, zoom, pan, call,
                   result>>

\* a pointer can go down on a handle of the selected note or image
handleShown(kind, id) ==
    /\ reachable(kind, id)
    /\ selectedId(kind) = id
    /\ pointersDown < MaxPointers

\* the three document listeners a gesture start registers
listenerGroup(kind, id, mode) ==
    [kind |-> kind, id |-> id, mode |-> mode, live |-> TRUE, before |-> localBoard]

\* handleResizeStart of StickyNote and BoardImage, on the handle of the
\* selected object
handleResizeStart(kind, id) ==
    /\ handleShown(kind, id)
    /\ listeners' = Append(listeners, listenerGroup(kind, id, "resize"))
    /\ UNCHANGED <<dragging, dragMode>>
    /\ gestureFrame

\* handleRotateStart of StickyNote and BoardImage
handleRotateStart(kind, id) ==
    /\ handleShown(kind, id)
    /\ listeners' = Append(listeners, listenerGroup(kind, id, "rotate"))
    /\ UNCHANGED <<dragging, dragMode>>
    /\ gestureFrame

\* the drag of a motion.div begins: drag={!isResizing && !isRotating}
onDragStart(kind, id) ==
    /\ reachable(kind, id)
    /\ \A g \in resizingOrRotating : ~(g.kind = kind /\ g.id = id)
    /\ [kind |-> kind, id |-> id] \notin dragging
    /\ pointersDown < MaxPointers
    /\ dragging' = dragging \cup {[kind |-> kind, id |-> id]}
    /\ UNCHANGED <<listeners, dragMode>>
    /\ gestureFrame

\* onDragEnd of StickyNote and BoardImage: onUpdate(id, {x, y})
onDragEnd(kind, id, v) ==
    /\ [kind |-> kind, id |-> id] \in dragging
    /\ IF kind = "note"
       THEN LET current == orEmpty(localBoard)
            IN  NoteMutation("update",
                    [current EXCEPT !.stickyNotes = mapUpdate(current.stickyNotes, id, v)])
       ELSE PlainMutation("images", mapUpdate(localBoard.images, id, v))
    /\ Counted("onDragEnd", id)
    /\ dragging' = dragging \ {[kind |-> kind, id |-> id]}
    /\ UNCHANGED <<ret, pvars, selectedNoteId, selectedLabelId, selectedLineId,
                   selectedImageId, nextId, currentTool, listeners, uvars>>

\* handleEndpointDragStart and handleLineDragStart on a handle of the
\* selected line: cleanupRef.current() of a gesture still registered, then
\* setDragMode and the three document listeners
handleLineHandleStart(id, mode) ==
    /\ ~isLineMode
    /\ rendered("line", id, localBoard)
    /\ selectedLineId = id
    /\ pointersDown < MaxPointers
    /\ dragMode' = mode
    /\ listeners' = Append(cleanupLine(listeners), listenerGroup("line", id, mode))
    /\ UNCHANGED dragging
    /\ gestureFrame

\* a pointermove on the document: the handleMove of a line handle gesture
\* calls onUpdateLine; the move closures of notes and images write styles
documentPointerMove(v) ==
    /\ \E i \in 1..Len(listeners) :
          /\ listeners[i].kind = "line"
          /\ PlainMutation("lines", mapUpdate(localBoard.lines, listeners[i].id, v))
          /\ Counted("handleUpdateLine", listeners[i].id)
    /\ UNCHANGED <<ret, pvars, selectedNoteId, selectedLabelId, selectedLineId,
                   selectedImageId, nextId, currentTool, gvars, uvars>>

\* what the pointerup listener of one group does to the board and the
\* history: handleResizeEnd and handleRotateEnd call onUpdate, which is
\* handleUpdateNote (with the beforeState of the render that registered the
\* listener) or handleUpdateBoardImage; the cleanup of a line changes neither
endOne(st, l, v) ==
    IF l.kind = "note"
    THEN LET after == [st.board EXCEPT
                          !.stickyNotes = mapUpdate(st.board.stickyNotes, l.id, v)]
         IN  [board  |-> after,
              past   |-> pushPast(st.past, [type |-> "update", elementType |-> "note",
                                            before |-> l.before, after |-> after],
                                  maxSize),
              future |-> pushFuture(st.future)]
    ELSE IF l.kind = "image"
    THEN [st EXCEPT !.board = [st.board EXCEPT
                                  !.images = mapUpdate(st.board.images, l.id, v)]]
    ELSE st

\* the pointerup listeners run in the order they were registered
RECURSIVE endAll(_, _, _)
endAll(st, ls, v) ==
    IF ls = <<>> THEN st ELSE endAll(endOne(st, Head(ls), v), Tail(ls), v)

\* a pointerup or pointercancel on the document: every registered group runs
\* its end handler and removes its listeners
documentPointerUp(v) ==
    LET committing == {i \in 1..Len(listeners) : listeners[i].kind # "line"}
        st == endAll([board |-> localBoard, past |-> past, future |-> future],
                     listeners, v)
    IN  /\ listeners # <<>>
        /\ opsLeft >= Cardinality(committing)
        /\ opsLeft' = opsLeft - Cardinality(committing)
        /\ localBoard' = st.board
        /\ past' = st.past
        /\ future' = st.future
        /\ hasUnsavedChanges' = (hasUnsavedChanges \/ committing # {})
        /\ listeners' = <<>>
        /\ dragMode' = IF \E i \in 1..Len(listeners) : listeners[i].kind = "line"
                       THEN "none" ELSE dragMode
        /\ lastOp' = "documentPointerUp"
        /\ UNCHANGED <<maxSize, ret, pushed, consec, prev, pvars, selectedNoteId,
                       selectedLabelId, selectedLineId, selectedImageId, nextId,
                       currentTool, dragging, isSpacePressed, isPanning,
                       startPoint, currentEndPoint, zoom, pan, call,
                   result>>

\* the window keydown handler for the space key
handleKeyDown ==
    /\ ~isSpacePressed
    /\ isSpacePressed' = TRUE
    /\ UNCHANGED <<hvars, bvars, currentTool, gvars, isPanning, dragMode,
                   startPoint, currentEndPoint, zoom, pan, call,
                   result>>

\* the window keyup handler for the space key
handleKeyUp ==
    /\ isSpacePressed
    /\ isSpacePressed' = FALSE
    /\ isPanning' = FALSE
    /\ UNCHANGED <<hvars, bvars, currentTool, gvars, dragMode, startPoint,
                   currentEndPoint, zoom, pan, call,
                   result>>

\* end points of a drawn segment on both sides of the commit threshold
DrawInputs == {[r |-> 10, a |-> 0], [r |-> 11, a |-> 0]}

\* boards the page has loaded: a note or an image, and a line
GestureBoards ==
    {[EmptyBoard EXCEPT !.stickyNotes = <<NewObject(1)>>, !.lines = <<NewObject(2)>>],
     [EmptyBoard EXCEPT !.images = <<NewObject(1)>>, !.lines = <<NewObject(2)>>]}

\* the page after its board has loaded
GestureInit ==
    /\ maxSize = BoardHistorySize
    /\ past = <<>>
    /\ future = <<>>
    /\ ret = Null
    /\ lastOp = "init"
    /\ pushed = <<>>
    /\ consec = 0
    /\ localBoard \in GestureBoards
    /\ hasUnsavedChanges = FALSE
    /\ serverBoardData = localBoard
    /\ refetchPending = FALSE
    /\ selectedNoteId = 0
    /\ selectedLabelId = 0
    /\ selectedLineId = 0
    /\ selectedImageId = 0
    /\ nextId = 2
    /\ saves = <<>>
    /\ remote = localBoard
    /\ opsLeft = MaxGestureOps
    /\ prev = [stage |-> 0, id |-> 0, snap |-> Null]
    /\ CanvasInit
    /\ call = [op |-> "none", rawEnd |-> [r |-> 0, a |-> 0]]
    /\ result = [r |-> 0, a |-> 0]

GestureNext ==
    \/ \E tool \in {"cursor", "line"} : setCurrentTool(tool)
    \/ handleKeyDown
    \/ handleKeyUp
    \/ \E id \in 1..MaxIds : onSelectNote(id)
    \/ \E id \in 1..MaxIds : onSelectImage(id)
    \/ \E id \in 1..MaxIds : onSelectLine(id)
    \/ handleCanvasClick
    \/ \E kind \in {"note", "image"}, id \in 1..MaxIds : handleResizeStart(kind, id)
    \/ \E kind \in {"note", "image"}, id \in 1..MaxIds : handleRotateStart(kind, id)
    \/ \E kind \in {"note", "image"}, id \in 1..MaxIds : onDragStart(kind, id)
    \/ \E kind \in {"note", "image"}, id \in 1..MaxIds, v \in 1..MaxVal :
          onDragEnd(kind, id, v)
    \/ \E id \in 1..MaxIds, mode \in {"endpoint1", "endpoint2", "line"} :
          handleLineHandleStart(id, mode)
    \/ \E v \in 1..MaxVal : documentPointerMove(v)
    \/ \E v \in 1..MaxVal : documentPointerUp(v)
    \/ \E point \in StartPoints : handlePointerDown(point)
    \/ \E rawEnd \in DrawInputs : handlePointerMove(rawEnd)
    \/ handlePointerUp
    \/ createNote
    \/ safeUndo

GestureSpec == GestureInit /\ [][GestureNext]_vars

(***************************************************************************)
(* The gestures of notes and images on their own: select, resize, rotate   *)
(* and drag with the cursor tool.  call and result hold the last pointer   *)
(* move and the value the object shows for it (the style written by        *)
(* handleResizeMove, localRotation set by handleRotateMove).               *)
(***************************************************************************)
MaxObjectOps == 3   \* updates the gestures of a run may commit

\* a pointer move whose handlers also hand the value to the board store
objectPointerMoveCommits(v) ==
    /\ \E i \in 1..Len(listeners) :
          /\ listeners[i].kind # "line"
          /\ PlainMutation(CollectionOf[listeners[i].kind],
                           mapUpdate(localBoard[CollectionOf[listeners[i].kind]],
                                     listeners[i].id, v))
          /\ Counted("objectPointerMove", listeners[i].id)
    /\ call' = [op |-> "pointermove", v |-> v]
    /\ result' = [shown |-> v]
    /\ UNCHANGED <<ret, pvars, selectedNoteId, selectedLabelId, selectedLineId,
                   selectedImageId, nextId, currentTool, gvars, isSpacePressed,
                   isPanning, dragMode, startPoint, currentEndPoint, zoom, pan>>

\* a pointermove on the document while a note or an image resizes or
\* rotates: handleResizeMove writes the element's style, handleRotateMove
\* calls setLocalRotation
objectPointerMove(v) ==
    /\ \E i \in 1..Len(listeners) : listeners[i].kind # "line"
    /\ call' = [op |-> "pointermove", v |-> v]
    /\ result' = [shown |-> v]
    /\ UNCHANGED <<hvars, bvars, currentTool, gvars, isSpacePressed, isPanning,
                   dragMode, startPoint, currentEndPoint, zoom, pan>>

ObjectInit ==
    /\ maxSize = BoardHistorySize
    /\ past = <<>>
    /\ future = <<>>
    /\ ret = Null
    /\ lastOp = "init"
    /\ pushed = <<>>
    /\ consec = 0
    /\ localBoard \in GestureBoards
    /\ hasUnsavedChanges = FALSE
    /\ serverBoardData = localBoard
    /\ refetchPending = FALSE
    /\ selectedNoteId = 0
    /\ selectedLabelId = 0
    /\ selectedLineId = 0
    /\ selectedImageId = 0
    /\ nextId = 2
    /\ saves = <<>>
    /\ remote = localBoard
    /\ opsLeft = MaxObjectOps
    /\ prev = [stage |-> 0, id |-> 0, snap |-> Null]
    /\ CanvasInit
    /\ call = [op |-> "none", v |-> 0]
    /\ result = [shown |-> 0]

ObjectNext ==
    \/ \E id \in 1..MaxIds : onSelectNote(id)
    \/ \E id \in 1..MaxIds : onSelectImage(id)
    \/ handleCanvasClick
    \/ \E kind \in {"note", "image"}, id \in 1..MaxIds : handleResizeStart(kind, id)
    \/ \E kind \in {"note", "image"}, id \in 1..MaxIds : handleRotateStart(kind, id)
    \/ \E kind \in {"note", "image"}, id \in 1..MaxIds : onDragStart(kind, id)
    \/ \E kind \in {"note", "image"}, id \in 1..MaxIds, v \in 1..MaxVal :
          onDragEnd(kind, id, v)
    \/ \E v \in 1..MaxVal : objectPointerMove(v)
    \/ \E v \in 1..MaxVal : documentPointerUp(v)

ObjectSpec == ObjectInit /\ [][ObjectNext]_vars

(***************************************************************************)
(* LineCanvas: the handles of a selected line, with its coordinates.       *)
(***************************************************************************)
MaxHandleOps == 3   \* pointer moves in a run of the line handles

\* a - b
minus(a, b) == plus(a, [n |-> -b.n, d |-> b.d])

\* getCoordinates and handleMove: (screen - pan) / zoom
toCanvas(screen, p, z) == fraction((screen * p.d - p.n) * 10000, p.d * z)

\* { x: (screenX - pan.x) / zoom, y: (screenY - pan.y) / zoom }
canvasPoint(client, p, z) ==
    [x |-> toCanvas(client.x, p.x, z), y |-> toCanvas(client.y, p.y, z)]

\* the line of the board with this id
lineOf(board, id) ==
    LET i == CHOOSE i \in 1..Len(board.lines) : board.lines[i].id = id
    IN  board.lines[i]

\* prev.lines.map(l => l.id === id ? { ...l, ...updates } : l), for an
\* update of the fields of keys
mergeLine(arr, id, keys, updates) ==
    [i \in 1..Len(arr) |->
        IF arr[i].id = id
        THEN [k \in DOMAIN arr[i] |-> IF k \in keys THEN updates[k] ELSE arr[i][k]]
        ELSE arr[i]]

\* the closures of a line handle gesture: handleMove with the line, the
\* pan and the zoom of the render that started it
handleGroup(id, mode, client) ==
    [kind |-> "line", id |-> id, mode |-> mode,
     startPos |-> canvasPoint(client, pan, zoom),
     originalLine |-> lineOf(localBoard, id),
     pan |-> pan, zoom |-> zoom]

handleFrame ==
    UNCHANGED <<hvars, bvars, currentTool, dragging, isSpacePressed, isPanning,
                startPoint, currentEndPoint, zoom, pan, call, result>>

\* LineCanvas handleEndpointDragStart, on an endpoint handle of the selected
\* line (the handles are rendered for the selected line outside line mode)
handleEndpointDragStart(id, endpoint, client) ==
    /\ ~isLineMode
    /\ rendered("line", id, localBoard)
    /\ selectedLineId = id
    /\ dragMode' = endpoint
    /\ listeners' = <<handleGroup(id, endpoint, client)>>
    /\ handleFrame

\* LineCanvas handleLineDragStart, on the move handle
handleLineDragStart(id, client) ==
    /\ ~isLineMode
    /\ rendered("line", id, localBoard)
    /\ selectedLineId = id
    /\ dragMode' = "move"
    /\ listeners' = <<handleGroup(id, "move", client)>>
    /\ handleFrame

\* the fields handleMove hands to onUpdateLine for a pointer at client
lineUpdates(g, client) ==
    LET pos == canvasPoint(client, g.pan, g.zoom)
        dx == minus(pos.x, g.startPos.x)
        dy == minus(pos.y, g.startPos.y)
    IN  IF g.mode = "endpoint1"
        THEN [keys |-> {"x1", "y1"},
              to |-> [x1 |-> round(pos.x), y1 |-> round(pos.y)]]
        ELSE IF g.mode = "endpoint2"
        THEN [keys |-> {"x2", "y2"},
              to |-> [x2 |-> round(pos.x), y2 |-> round(pos.y)]]
        ELSE [keys |-> {"x1", "y1", "x2", "y2"},
              to |-> [x1 |-> round(plus(px(g.originalLine.x1), dx)),
                      y1 |-> round(plus(px(g.originalLine.y1), dy)),
                      x2 |-> round(plus(px(g.originalLine.x2), dx)),
                      y2 |-> round(plus(px(g.originalLine.y2), dy))]]

\* a pointermove on the document during a line handle gesture: handleMove
\* calls onUpdateLine = handleUpdateLine
handleMove(client) ==
    /\ listeners # <<>>
    /\ LET g == listeners[1]
           u == lineUpdates(g, client)
       IN  /\ PlainMutation("lines", mergeLine(localBoard.lines, g.id, u.keys, u.to))
           /\ Counted("handleUpdateLine", g.id)
    /\ call' = [op |-> "handleMove", client |-> client]
    /\ UNCHANGED <<ret, pvars, selectedNoteId, selectedLabelId, selectedLineId,
                   selectedImageId, nextId, currentTool, gvars, isSpacePressed,
                   isPanning, dragMode, startPoint, currentEndPoint, zoom, pan,
                   result>>

\* a pointerup or pointercancel on the document: cleanup
cleanup ==
    /\ listeners # <<>>
    /\ dragMode' = "none"
    /\ listeners' = <<>>
    /\ handleFrame

ClientPoints == {[x |-> 100, y |-> 100], [x |-> 133, y |-> 87], [x |-> 61, y |-> 140]}
HandleZooms == {5000, 10000, 15000}
HandlePans == {ZeroPan, [x |-> fraction(-241, 2), y |-> fraction(700, 3)]}

\* boards with one line: coordinates are whole numbers (handlePointerUp and
\* the handle gestures round them, the column type is integer)
HandleBoards ==
    {[EmptyBoard EXCEPT !.lines = <<[id |-> 1, x1 |-> 10, y1 |-> 20, x2 |-> 50, y2 |-> 20]>>],
     [EmptyBoard EXCEPT !.lines = <<[id |-> 1, x1 |-> -3, y1 |-> 7, x2 |-> 4, y2 |-> 90]>>]}

\* the page after its board has loaded, zoomed and panned somewhere
HandleInit ==
    /\ maxSize = BoardHistorySize
    /\ past = <<>>
    /\ future = <<>>
    /\ ret = Null
    /\ lastOp = "init"
    /\ pushed = <<>>
    /\ consec = 0
    /\ localBoard \in HandleBoards
    /\ hasUnsavedChanges = FALSE
    /\ serverBoardData = localBoard
    /\ refetchPending = FALSE
    /\ selectedNoteId = 0
    /\ selectedLabelId = 0
    /\ selectedLineId = 0
    /\ selectedImageId = 0
    /\ nextId = 1
    /\ saves = <<>>
    /\ remote = localBoard
    /\ opsLeft = MaxHandleOps
    /\ prev = [stage |-> 0, id |-> 0, snap |-> Null]
    /\ currentTool = "cursor"
    /\ isSpacePressed = FALSE
    /\ isPanning = FALSE
    /\ listeners = <<>>
    /\ dragging = {}
    /\ dragMode = "none"
    /\ startPoint = Null
    /\ currentEndPoint = Null
    /\ zoom \in HandleZooms
    /\ pan \in HandlePans
    /\ call = [op |-> "none", client |-> [x |-> 0, y |-> 0]]
    /\ result = [r |-> 0, a |-> 0]

HandleNext ==
    \/ \E tool \in {"cursor", "line"} : setCurrentTool(tool)
    \/ handleKeyDown
    \/ handleKeyUp
    \/ onSelectLine(1)
    \/ \E endpoint \in {"endpoint1", "endpoint2"}, client \in ClientPoints :
          handleEndpointDragStart(1, endpoint, client)
    \/ \E client \in ClientPoints : handleLineDragStart(1, client)
    \/ \E client \in ClientPoints : handleMove(client)
    \/ cleanup

HandleSpec == HandleInit /\ [][HandleNext]_vars

(***************************************************************************)
(* StickyNote, BoardImage, TextLabel: the rotate gesture, in half degrees.  *)
(***************************************************************************)
MaxRotateOps == 4   \* pointer moves and commits in a run of the rotate handle
SmallTurn == 4      \* the largest turn of the pointer between two events: 2 degrees

\* the pointer at direction dir (half degrees, counted on through full
\* turns) from the centre of the object
around(dir) == [r |-> 40, a |-> dir]

\* Math.round of a value in half degrees, in degrees
roundDegrees(h) == (h + 1) \div 2

\* the rotation of the object in the store, in degrees
rotationOf(board) == board.stickyNotes[1].v

rotateFrame ==
    UNCHANGED <<currentTool, dragging, isSpacePressed, isPanning, dragMode,
                startPoint, currentEndPoint, zoom, pan>>

\* handleRotateStart with the pointer at direction dir: startAngle,
\* startRotation = localRotation, currentRotationValue = startRotation
rotateStart(dir) ==
    /\ listeners = <<>>
    /\ listeners' = <<[kind |-> "note", id |-> 1, mode |-> "rotate",
                       startAngle |-> atan2(around(dir)),
                       startRotation |-> result.localRotation,
                       currentRotationValue |-> result.localRotation]>>
    /\ call' = [op |-> "handleRotateStart", from |-> dir, to |-> dir]
    /\ UNCHANGED <<hvars, bvars, result>>
    /\ rotateFrame

\* the rotation a rotate gesture shows for the pointer at direction dir
rotationAt(g, dir) == g.startRotation + (atan2(around(dir)) - g.startAngle)

\* handleRotateMove after the pointer turned by step about the centre
handleRotateMove(step) ==
    /\ listeners # <<>>
    /\ LET g == listeners[1]
           dir == call.to + step
           value == rotationAt(g, dir)
       IN  /\ listeners' = <<[g EXCEPT !.currentRotationValue = value]>>
           /\ result' = [localRotation |-> value]
           /\ call' = [op |-> "handleRotateMove", from |-> call.to, to |-> dir]
    /\ Counted("handleRotateMove", 1)
    /\ UNCHANGED <<ret, past, future, localBoard, hasUnsavedChanges, pvars,
                   selectedNoteId, selectedLabelId, selectedLineId, selectedImageId,
                   nextId>>
    /\ rotateFrame

\* handleRotateEnd: onUpdate(note.id, { rotation: Math.round(
\* currentRotationValue) }), and the effect that copies a changed
\* note.rotation to localRotation
handleRotateEnd ==
    /\ listeners # <<>>
    /\ LET rotation == roundDegrees(listeners[1].currentRotationValue)
           current == orEmpty(localBoard)
       IN  /\ NoteMutation("update",
                  [current EXCEPT !.stickyNotes = mapUpdate(current.stickyNotes, 1, rotation)])
           /\ result' = IF rotation # rotationOf(localBoard)
                        THEN [localRotation |-> 2 * rotation]
                        ELSE result
    /\ Counted("handleRotateEnd", 1)
    /\ listeners' = <<>>
    /\ call' = [call EXCEPT !.op = "handleRotateEnd"]
    /\ UNCHANGED <<ret, pvars, selectedNoteId, selectedLabelId, selectedLineId,
                   selectedImageId, nextId>>
    /\ rotateFrame

RotateStarts == {0, 180, 352, 358, -358}
StoredRotations == {0, 45, -90}

\* a selected note of a loaded board, rotated as it was saved
RotateInit ==
    /\ maxSize = BoardHistorySize
    /\ past = <<>>
    /\ future = <<>>
    /\ ret = Null
    /\ lastOp = "init"
    /\ pushed = <<>>
    /\ consec = 0
    /\ \E rotation \in StoredRotations :
          /\ localBoard = [EmptyBoard EXCEPT
                              !.stickyNotes = <<[id |-> 1, v |-> rotation]>>]
          /\ result = [localRotation |-> 2 * rotation]
    /\ hasUnsavedChanges = FALSE
    /\ serverBoardData = localBoard
    /\ refetchPending = FALSE
    /\ selectedNoteId = 1
    /\ selectedLabelId = 0
    /\ selectedLineId = 0
    /\ selectedImageId = 0
    /\ nextId = 1
    /\ saves = <<>>
    /\ remote = localBoard
    /\ opsLeft = MaxRotateOps
    /\ prev = [stage |-> 0, id |-> 0, snap |-> Null]
    /\ currentTool = "cursor"
    /\ isSpacePressed = FALSE
    /\ isPanning = FALSE
    /\ listeners = <<>>
    /\ dragging = {}
    /\ dragMode = "none"
    /\ startPoint = Null
    /\ currentEndPoint = Null
    /\ zoom = 10000
    /\ pan = ZeroPan
    /\ call = [op |-> "none", from |-> 0, to |-> 0]

RotateNext ==
    \/ \E dir \in RotateStarts : rotateStart(dir)
    \/ \E step \in (-SmallTurn..SmallTurn) \ {0} : handleRotateMove(step)
    \/ handleRotateEnd

RotateSpec == RotateInit /\ [][RotateNext]_vars

(***************************************************************************)
(* Properties of the hook.                                                 *)
(***************************************************************************)
\* the last n elements of s, in order
LastN(s, n) == [i \in 1..n |-> s[Len(s) - n + i]]

\* s without its last element
Front(s) == [i \in 1..(Len(s) - 1) |-> s[i]]

C5_PushClearsFuture ==
    /\ lastOp = "push" => (future = <<>> /\ ~canRedo)
    /\ (lastOp = "redo" /\ prev.lastOp = "push") =>
           (ret = Null /\ past = prev.past /\ future = prev.future)

C5_Witness ==
    /\ lastOp = "redo"
    /\ prev.lastOp = "push"
    /\ Len(prev.past) > 0
    /\ Len(prev.before.future) > 0

\* C6: undo on a non-empty past removes exactly its last entry, appends
\* that entry to future and returns the entry's before snapshot; all other
\* entries of both stacks stay where they were.
C6_UndoMovesLast ==
    (lastOp = "undo" /\ Len(prev.past) > 0) =>
        /\ past = Front(prev.past)
        /\ future = prev.future \o <<prev.past[Len(prev.past)]>>
        /\ ret = prev.past[Len(prev.past)].before

C6_Witness ==
    /\ lastOp = "undo"
    /\ Len(prev.past) > 1
    /\ Len(prev.future) > 0

\* C7: redo on a non-empty future removes its last entry, appends it to
\* past and returns its after snapshot; an undo directly followed by a redo
\* returns the after snapshot of the entry undone and leaves both stacks as
\* they were before the undo.
C7_RedoInvertsUndo ==
    /\ (lastOp = "redo" /\ Len(prev.future) > 0) =>
           /\ future = Front(prev.future)
           /\ past = prev.past \o <<prev.future[Len(prev.future)]>>
           /\ ret = prev.future[Len(prev.future)].after
    /\ (lastOp = "redo" /\ prev.lastOp = "undo" /\ Len(prev.before.past) > 0) =>
           /\ ret = prev.before.past[Len(prev.before.past)].after
           /\ past = prev.before.past
           /\ future = prev.before.future

C7_Witness ==
    /\ lastOp = "redo"
    /\ prev.lastOp = "undo"
    /\ Len(prev.before.past) > 1
    /\ Len(prev.before.future) > 0

\* C23: undo() with an empty past and redo() with an empty future return
\* null and leave past, future, canUndo and canRedo as they were.
C23_UnderflowNoOp ==
    /\ (lastOp = "undo" /\ prev.past = <<>>) =>
           /\ ret = Null
           /\ past = prev.past /\ future = prev.future
           /\ ~canUndo /\ (canRedo <=> Len(prev.future) > 0)
    /\ (lastOp = "redo" /\ prev.future = <<>>) =>
           /\ ret = Null
           /\ past = prev.past /\ future = prev.future
           /\ ~canRedo /\ (canUndo <=> Len(prev.past) > 0)

C23_Witness ==
    /\ lastOp = "undo"
    /\ prev.past = <<>>
    /\ Len(prev.future) > 1
    /\ prev.lastOp = "undo"

\* C24: after n pushes, successive undo() calls return the before snapshots
\* in reverse push order and exactly min(n, maxSize) of them succeed before
\* canUndo is false; with 25 pushes on the capacity-20 hook that is 20 undos,
\* the last returning the before snapshot of the 6th entry pushed.
C24_UndoInReversePushOrder ==
    (lastOp = "undo" /\ prev.past # <<>>) =>
        /\ Len(future) <= Min(Len(pushed), maxSize)
        /\ ret = pushed[Len(pushed) - Len(future) + 1].before
        /\ canUndo <=> Len(future) < Min(Len(pushed), maxSize)
        /\ (Len(pushed) = 25 /\ ~canUndo) =>
               /\ Len(future) = 20
               /\ ret = TestAction(6).before

C24_Witness ==
    /\ lastOp = "undo"
    /\ prev.past # <<>>
    /\ Len(pushed) = 25
    /\ maxSize = 20
    /\ Len(future) = 20
    /\ ~canUndo
    /\ ret = [tag |-> 12]

\* a redo issued after a full undo that left more than one entry in future
afterFullUndo ==
    /\ lastOp = "redo"
    /\ prev.lastOp = "undo"
    /\ prev.past = <<>>
    /\ Len(prev.future) > 1

\* C25 as stated: after a full undo with more than one entry retained, one
\* redo() returns the after snapshot of the most recently pushed entry.
C25_RedoRestoresNewest ==
    afterFullUndo => ret = pushed[Len(pushed)].after

\* C25 as the hook has it: after a full undo with more than one entry
\* retained, one redo() returns the after snapshot of the entry undone
\* last, which is the oldest entry retained, and past holds that entry alone.
C25_RedoRestoresOldest ==
    afterFullUndo =>
        LET f == prev.future
            oldest == f[Len(f)]
        IN  /\ \A i \in 1..Len(f) : oldest.before.tag <= f[i].before.tag
            /\ ret = oldest.after
            /\ past = <<oldest>>
            /\ future = Front(f)

C25_Witness ==
    /\ afterFullUndo
    /\ Len(prev.future) > 2
    /\ ret # pushed[Len(pushed)].after

\* C26: canUndo holds exactly when past is non-empty and canRedo exactly
\* when future is non-empty; both are false initially, and after clear()
\* both stacks are empty and both flags false, whatever the state before.
C26_FlagsFollowStacks ==
    /\ canUndo <=> past # <<>>
    /\ canRedo <=> future # <<>>
    /\ lastOp = "init" => (~canUndo /\ ~canRedo)
    /\ lastOp = "clear" => (past = <<>> /\ future = <<>> /\ ~canUndo /\ ~canRedo)

C26_Witness ==
    /\ lastOp = "clear"
    /\ Len(prev.past) > 0
    /\ Len(prev.future) > 0

RECURSIVE undoEach(_, _, _)
undoEach(p, f, k) ==
    IF k = 0 \/ Len(p) = 0 THEN [past |-> p, future |-> f]
    ELSE undoEach(sliceButLast(p), undoFuture(f, p[Len(p)]), k - 1)

\* k calls of redo, one render apart
RECURSIVE redoEach(_, _, _)
redoEach(p, f, k) ==
    IF k = 0 \/ Len(f) = 0 THEN [past |-> p, future |-> f]
    ELSE redoEach(Append(p, redoPick(f)), sliceButLast(f), k - 1)

\* k calls of push, one render apart, of the actions after the n-th
RECURSIVE pushEach(_, _, _)
pushEach(p, n, k) ==
    IF k = 0 THEN [past |-> p, future |-> <<>>]
    ELSE pushEach(pushPast(p, TestAction(n + 1), maxSize), n + 1, k - 1)

\* C39: k calls of undo (or of redo, or of push) made against one rendered
\* state leave past and future as k calls made one render apart do.
C39_BatchAsSequential ==
    LET now == [past |-> past, future |-> future]
    IN  /\ call.op = "undo" => now = undoEach(prev.past, prev.future, call.k)
        /\ call.op = "redo" => now = redoEach(prev.past, prev.future, call.k)
        /\ call.op = "push" =>
               now = pushEach(prev.past, Len(pushed) - call.k, call.k)

(***************************************************************************)
(* Properties of the board store.                                          *)
(***************************************************************************)
\* the handlers that create, update or delete an object of some kind
MutatingOps ==
    {"createNote", "handleUpdateNote", "handleDeleteNote",
     "handleAddDrawingLocal",
     "handleCreateTextLabel", "handleUpdateTextLabel", "handleDeleteTextLabel",
     "handleCreateLine", "handleUpdateLine", "handleDeleteLine",
     "handleCreateBoardImage", "handleUpdateBoardImage", "handleDeleteBoardImage"}

\* the four selection ids
selection == <<selectedNoteId, selectedLabelId, selectedLineId, selectedImageId>>

\* C1: once the board is loaded, whenever hasUnsavedChanges is false the
\* local board equals the board persisted on the server.
C1_CleanMeansPersisted ==
    (localBoard # Null /\ ~hasUnsavedChanges) => localBoard = remote

\* C2: at most one save request is on its way to the server at any time.
C2_OneSaveOutstanding == Cardinality(WithStatus("sent")) <= 1

\* C3: every create, update or delete of an object of any kind pushes one
\* history entry whose before is the board before the operation and whose
\* after is the board after it, so canUndo is true right after it.
C3_MutationPushesEntry ==
    [][(opsLeft' = opsLeft - 1 /\ lastOp' \in MutatingOps) =>
          /\ canUndo'
          /\ Len(past') = Len(past) + 1
          /\ SubSeq(past', 1, Len(past)) = past
          /\ past'[Len(past')].before = localBoard
          /\ past'[Len(past')].after = localBoard']_vars

\* C8: create note A, update note A, undo, redo, each in its own event,
\* leaves the board equal to the board right after the update.
C8_UndoRedoRestoresUpdate == prev.stage = 4 => localBoard = prev.snap

C8_Witness ==
    /\ prev.stage = 4
    /\ lastOp = "safeRedo"
    /\ \E i \in 1..Len(localBoard.stickyNotes) :
          localBoard.stickyNotes[i] = [id |-> prev.id, v |-> 1]

\* C9: handling a failed save leaves hasUnsavedChanges as it was (true
\* stays true) and changes neither the local board, nor the history stacks,
\* nor the selection.
C9_FailedSaveKeepsState ==
    [][(\E i \in 1..Len(saves) :
           saves[i].status \in {"404", "500"} /\ saves' = Without(i)) =>
          /\ hasUnsavedChanges' = hasUnsavedChanges
          /\ localBoard' = localBoard
          /\ past' = past
          /\ future' = future
          /\ selection' = selection]_vars

C9_Witness ==
    /\ lastOp = "onError"
    /\ hasUnsavedChanges
    /\ localBoard # remote
    /\ Len(past) > 0
    /\ selectedNoteId # 0

C11_MutationMarksDirty ==
    [][(/\ opsLeft' = opsLeft - 1
        /\ saves' = saves
        /\ \/ lastOp' \in MutatingOps \cup {"handleClearBoard"}
           \/ lastOp' \in {"safeUndo", "safeRedo"} /\ ret' # Null)
          => hasUnsavedChanges']_vars

C11_Witness ==
    /\ lastOp = "safeUndo"
    /\ ret # Null
    /\ localBoard = ret
    /\ refetchPending
    /\ saves = <<>>
    /\ hasUnsavedChanges

\* C14: at most one of the four selection ids is set.
C14_SingleSelection ==
    Cardinality({i \in 1..4 : selection[i] # 0}) <= 1

\* the mutations of the last template load that made a note
noteSteps == SelectSeq(result, LAMBDA step : step.elementType = "note")

\* C27: every history entry the board store pushes has the board right
\* before its mutation as before and the board right after it as after,
\* also when several mutations are issued in one event: after a template
\* load, the entries of the notes it made bracket their mutations.
C27_EntriesBracketMutations ==
    lastOp = "handleLoadPreset" =>
        LET k == Len(noteSteps)
        IN  /\ Len(past) >= k
            /\ \A i \in 1..k :
                   /\ past[Len(past) - k + i].before = noteSteps[i].before
                   /\ past[Len(past) - k + i].after = noteSteps[i].after

\* the step is a safeUndo or a safeRedo that applied a snapshot
undoOrRedoStep ==
    /\ opsLeft' = opsLeft - 1
    /\ lastOp' \in {"safeUndo", "safeRedo"}
    /\ ret' # Null

\* C36: an undo or redo of the board store changes only what the undone or
\* redone action changed.  Only note mutations are recorded, so the labels,
\* lines, images and strokes of the board are as they were before it.
C36_UndoLeavesTheRestAlone ==
    [][undoOrRedoStep =>
           /\ localBoard'.textLabels = localBoard.textLabels
           /\ localBoard'.lines = localBoard.lines
           /\ localBoard'.images = localBoard.images
           /\ localBoard'.drawings = localBoard.drawings]_vars

\* the ids of the objects of the board, per selection
selectable ==
    [note |-> IdsOf(orEmpty(localBoard).stickyNotes),
     label |-> IdsOf(orEmpty(localBoard).textLabels),
     line |-> IdsOf(orEmpty(localBoard).lines),
     image |-> IdsOf(orEmpty(localBoard).images)]

\* C37: every selection id that is not null names an object of the current
\* board.
C37_NoDanglingSelection ==
    /\ selectedNoteId # 0 => selectedNoteId \in selectable.note
    /\ selectedLabelId # 0 => selectedLabelId \in selectable.label
    /\ selectedLineId # 0 => selectedLineId \in selectable.line
    /\ selectedImageId # 0 => selectedImageId \in selectable.image

\* C38: once the local board is initialised, a step of the server side (a
\* response of the query, the refetch after a save included, a request sent
\* or answered, a callback of the mutation) leaves the local board as it is.
C38_ServerNeverOverwritesLocal ==
    [][(localBoard # Null /\ pvars' # pvars) => localBoard' = localBoard]_vars

C38_Witness ==
    /\ lastOp = "onSuccess"
    /\ ~refetchPending
    /\ saves = <<>>
    /\ localBoard # Null
    /\ serverBoardData = remote
    /\ serverBoardData # localBoard

(***************************************************************************)
(* Properties of the viewport.                                             *)
(***************************************************************************)
\* clamp(z, 0.25, 3.0)
clampZoom(z) == IF z < 2500 THEN 2500 ELSE IF z > 30000 THEN 30000 ELSE z

IsQuarterStep(z) == z >= 2500 /\ z <= 30000 /\ z % 2500 = 0

C21_StepToNearestIncrement ==
    /\ call.op = "handleZoomIn" =>
           zoom = Min(30000, (call.from \div 2500 + 1) * 2500)
    /\ call.op = "handleZoomOut" =>
           zoom = Max(2500, ((call.from + 2499) \div 2500 - 1) * 2500)

\* screenToCanvas: (screen - pan) / zoom, the canvas coordinate shown at a
\* screen coordinate, as a fraction in lowest terms of 0.0005 canvas units
screenToCanvas(screen, p, z) ==
    fraction(screen * p.d - p.n, p.d * (z \div 5))

\* C22: a wheel zoom that changes the zoom sets pan so that the canvas
\* coordinate under the cursor is the same before and after the change
C22_ZoomToCursor ==
    (call.op = "handleWheel" /\ zoom # call.from) =>
        /\ screenToCanvas(call.mouse.x, pan.x, zoom)
               = screenToCanvas(call.mouse.x, call.pan.x, call.from)
        /\ screenToCanvas(call.mouse.y, pan.y, zoom)
               = screenToCanvas(call.mouse.y, call.pan.y, call.from)

C22_Witness ==
    /\ call.op = "handleWheel"
    /\ call.mouse = [x |-> 400, y |-> 300]
    /\ call.from = 10995
    /\ zoom = 11990
    /\ call.pan.x = fraction(-241, 2)
    /\ pan # call.pan

(***************************************************************************)
(* Properties of the line tool.  Angles of the claims are in degrees, those *)
(* of the model in half degrees.                                           *)
(***************************************************************************)
\* the candidate snap angles, in degrees
Candidates == {0, 45, -45, 90, -90, 135, -135, 180}

\* the angular distance, in half degrees, between direction a (half degrees)
\* and candidate s (degrees), measured around the circle
angularDistance(a, s) ==
    LET m == (a - 2 * s) % 720 IN IF m > 360 THEN 720 - m ELSE m

\* the distance from direction a to the closest candidate
closestDistance(a) ==
    CHOOSE d \in 0..360 :
        /\ \E s \in Candidates : angularDistance(a, s) = d
        /\ \A s \in Candidates : angularDistance(a, s) >= d

\* C17: for a raw end point at a positive distance from the start, the point
\* snapAngle returns is, iff the closest candidate is less than 15 degrees
\* away, the point at the same distance along that candidate, and otherwise
\* the raw end point itself; 44 degrees gives exactly 45, 60 stays as it is.
C17_SnapToClosest ==
    (call.op = "snapAngle" /\ call.rawEnd.r > 0) =>
        LET rawEnd == call.rawEnd
            d == closestDistance(rawEnd.a)
        IN  /\ IF d < 30
               THEN /\ result.r = rawEnd.r
                    /\ \E s \in Candidates :
                          /\ angularDistance(rawEnd.a, s) = d
                          /\ angularDistance(result.a, s) = 0
               ELSE result = rawEnd
            /\ rawEnd.a = 88 => result = [r |-> rawEnd.r, a |-> 90]
            /\ rawEnd.a = 120 => result = rawEnd

C17_Witness ==
    /\ call.op = "snapAngle"
    /\ call.rawEnd = [r |-> 40, a |-> 88]
    /\ result = [r |-> 40, a |-> 90]
    /\ currentEndPoint = result
    /\ dragMode = "draw"


\* C13: in a resize gesture on a note or an image, the width and height
\* applied at every pointer-move frame and those committed on release or
\* cancel are each at least 60
C13_MinimumSize ==
    call.op \in {"handleResizeMove", "handleResizeEnd"} =>
        /\ ~less(result.width, px(60))
        /\ ~less(result.height, px(60))

\* C29: the pointer-up or pointer-cancel that ends a resize commits the size
\* shown at the most recent pointer-move frame, rounded, whatever the
\* coordinates of the ending event are.
C29_CommitsLastShownSize ==
    [][(call.op = "handleResizeMove" /\ call'.op = "handleResizeEnd") =>
           result' = [width |-> px(round(result.width)),
                      height |-> px(round(result.height))]]_vars

\* C28: the line tool is in its Drawing state only while line mode is on;
\* when line mode goes off during a draw the tool is back in Idle, so that
\* line mode is never re-entered with a start point captured before.
C28_DrawingOnlyInLineMode ==
    dragMode = "draw" => isLineMode

\* the step is a pointer leaving the svg, coming after an event of another
\* kind
abortStep == call'.op = "pointerleave" /\ call.op # "pointerleave"

\* C30: when a draw is aborted (the pointer leaves the drawing surface or
\* the pointer is cancelled while Drawing), no line is created and the tool
\* is back in Idle.
C30_AbortDiscards ==
    [][(abortStep /\ dragMode = "draw") =>
           /\ dragMode' = "none"
           /\ localBoard'.lines = localBoard.lines]_vars

(***************************************************************************)
(* Properties of the gestures of notes and images.                         *)
(***************************************************************************)
\* the gestures that end in the step: the listener groups removed and the
\* drags finished
gesturesEnded ==
    (IF Len(listeners') < Len(listeners) THEN Len(listeners) - Len(listeners') ELSE 0)
        + Cardinality(dragging \ dragging')

\* C31: a drag, resize or rotate gesture calls the update of the board
\* store exactly once, when it ends by release or cancel; a step in which no
\* gesture ends, a pointer move among them, leaves the board and the
\* history as they are.
C31_OneCommitPerGesture ==
    [][/\ opsLeft - opsLeft' = gesturesEnded
       /\ gesturesEnded = 0 =>
              /\ localBoard' = localBoard
              /\ past' = past
              /\ hasUnsavedChanges' = hasUnsavedChanges]_vars

C31_Witness ==
    /\ lastOp = "documentPointerUp"
    /\ call.op = "pointermove"
    /\ listeners = <<>>
    /\ localBoard # remote
    /\ opsLeft < MaxObjectOps

\* C32: a gesture on the move handle or an endpoint handle of a line
\* updates the board store once, when it ends: while the gesture goes on,
\* the lines of the board are as they were (an undo aside).
C32_LineCommitAtRelease ==
    [][(/\ dragMode \in {"endpoint1", "endpoint2", "line"}
        /\ dragMode' = dragMode
        /\ lastOp' # "safeUndo") =>
           localBoard'.lines = localBoard.lines]_vars

(***************************************************************************)
(* Properties of the handles of a line.                                    *)
(***************************************************************************)
\* a step in which the handleMove of a line handle gesture ran
handleMoveStep == opsLeft' = opsLeft - 1 /\ lastOp' = "handleUpdateLine"

\* the move handle translates both endpoints by the same whole delta
translated(old, new) ==
    /\ new.x2 - new.x1 = old.x2 - old.x1
    /\ new.y2 - new.y1 = old.y2 - old.y1

\* the move handle keeps the vector of the line
MoveKeepsVector ==
    [][(handleMoveStep /\ dragMode = "move") =>
           translated(lineOf(localBoard, 1), lineOf(localBoard', 1))]_vars

\* an endpoint handle puts its endpoint at the rounded position of the
\* pointer and leaves the other endpoint where it was
EndpointAlone ==
    [][(handleMoveStep /\ dragMode \in {"endpoint1", "endpoint2"}) =>
           LET old == lineOf(localBoard, 1)
               new == lineOf(localBoard', 1)
               g == listeners[1]
               pos == canvasPoint(call'.client, g.pan, g.zoom)
           IN  IF dragMode = "endpoint1"
               THEN /\ new.x2 = old.x2 /\ new.y2 = old.y2
                    /\ new.x1 = round(pos.x) /\ new.y1 = round(pos.y)
               ELSE /\ new.x1 = old.x1 /\ new.y1 = old.y1
                    /\ new.x2 = round(pos.x) /\ new.y2 = round(pos.y)]_vars

\* no handle changes a line while line mode is on
NoMoveInLineMode ==
    [][handleMoveStep => ~isLineMode]_vars

\* C33: the move handle of the selected line translates both endpoints by
\* the same delta, an endpoint handle changes its own endpoint only and
\* does not snap, and neither changes a line while line mode is on.
C33_LineHandles ==
    [][handleMoveStep =>
           LET old == lineOf(localBoard, 1)
               new == lineOf(localBoard', 1)
               g == listeners[1]
               pos == canvasPoint(call'.client, g.pan, g.zoom)
           IN  /\ ~isLineMode
               /\ dragMode = "move" => translated(old, new)
               /\ dragMode = "endpoint1" =>
                      /\ new.x2 = old.x2 /\ new.y2 = old.y2
                      /\ new.x1 = round(pos.x) /\ new.y1 = round(pos.y)
               /\ dragMode = "endpoint2" =>
                      /\ new.x1 = old.x1 /\ new.y1 = old.y1
                      /\ new.x2 = round(pos.x) /\ new.y2 = round(pos.y)]_vars

(***************************************************************************)
(* Properties of the rotate gesture.                                       *)
(***************************************************************************)
\* a step in which handleRotateMove ran
rotateMoveStep == opsLeft' = opsLeft - 1 /\ lastOp' = "handleRotateMove"

\* the rotation shown is startRotation + (currentAngle - startAngle)
RotationFollowsFormula ==
    [][rotateMoveStep =>
           result'.localRotation
               = listeners[1].startRotation
                     + (atan2(around(call'.to)) - listeners[1].startAngle)]_vars

\* C34: during a rotate gesture the rotation shown is startRotation +
\* (currentAngle - startAngle), and a turn of the pointer of at most two
\* degrees about the centre changes it by less than half a turn, also where
\* the pointer crosses the direction of 180 degrees.
C34_RotationNeverJumps ==
    [][rotateMoveStep =>
           /\ result'.localRotation
                  = listeners[1].startRotation
                        + (atan2(around(call'.to)) - listeners[1].startAngle)
           /\ Abs(result'.localRotation - result.localRotation) < 360]_vars

(***************************************************************************)
(* Properties of the gestures.                                             *)
(***************************************************************************)
\* the gestures of notes and images that are not Idle
objectGestures ==
    resizingOrRotating \cup
        {[kind |-> c.kind, id |-> c.id, mode |-> "drag"] : c \in dragging}

\* C12: no document listener registered by a gesture stays registered once
\* the gesture has ended or its component is gone: every registered group
\* belongs to a mounted component, and a line's group to a LineCanvas that
\* is in a gesture
C12_NoListenerOutlivesGesture ==
    \A i \in 1..Len(listeners) :
        /\ listeners[i].live
        /\ listeners[i].kind = "line" => dragMode # "none"

\* C15: while the line tool is active no object gets selected and no drag,
\* resize or rotate starts on any object, and a line is never being drawn
\* while an object is in a gesture
C15_LineToolExcludesGestures ==
    [][/\ (isLineMode /\ isLineMode') =>
              /\ objectGestures' \subseteq objectGestures
              /\ selection' \in {selection, <<0, 0, 0, 0>>}
       /\ dragMode' = "draw" => objectGestures' = {}]_vars

\* C16: at most one gesture is not Idle system-wide: the objects (notes and
\* images) in a drag, resize or rotate, together with LineCanvas when it is
\* drawing or dragging a handle of a line, are never more than one
C16_OneGestureAtATime ==
    Cardinality({[kind |-> g.kind, id |-> g.id] : g \in objectGestures})
        + (IF dragMode # "none" THEN 1 ELSE 0) <= 1

\* C18: a pointer-up while the line tool is Drawing (and no handle of a line
\* is being dragged) adds a line to the board iff the segment is longer than
\* 10 canvas units, and leaves the tool Idle with both points cleared
C18_CommitIffLongerThanTen ==
    [][(dragMode = "draw" /\ dragMode' = "none" /\ listeners = <<>>) =>
           /\ (Len(localBoard'.lines) = Len(localBoard.lines) + 1)
                  <=> distance(currentEndPoint) > 10
           /\ Len(localBoard'.lines) \in {Len(localBoard.lines), Len(localBoard.lines) + 1}
           /\ startPoint' = Null
           /\ currentEndPoint' = Null]_vars


====
